---- MODULE Spec2Model ----
(***************************************************************************)
(* Model of IntradayDipBuyBot (src/Honban/intraday_dip_buy_bot.py): the    *)
(* tick buffer and 1-minute bar aggregation, the dip/reversal detector,    *)
(* the entry trigger and the order-lifecycle state machine driven by       *)
(* run(), together with the broker's order list as the bot observes it.    *)
(*                                                                         *)
(* Times are minutes since midnight, prices are integers (yen).  Python's  *)
(* None is modelled by None (-1) and float('inf') by Inf.                  *)
(***************************************************************************)
EXTENDS Integers, Sequences, FiniteSets, TLC

\* ------------------------------------------------------------------ bounds
\* Minutes of wall-clock time the model lets pass after start-up.
MaxMinutes == 1
\* Ticks the feed callback may leave in the buffer between two rollovers.
MaxTicks == 1
\* Orders the broker accepts in one run before it rejects every submission.
MaxOrders == 3

\* ------------------------------------------------------- program constants
None == -1
Inf == 1000000

MARKET_OPEN_AM == 540
MARKET_CLOSE_AM == 690
MARKET_OPEN_PM == 750
MARKET_CLOSE_PM == 900
END_OF_DAY == 930
NINE_OCLOCK == 540
\* One retry more than line 468 allows.
MAX_ENTRY_RETRIES_OneMore == 10 + 1
MAX_ENTRY_RETRIES == 10

\* ------------------------------------------------------------ input domains
\* Prices the feed delivers during the run.
TickPrices == {100, 102}
\* Execution price the broker reports for a filled order.
FillPrice == 100
\* Lifecycle state codes of the broker's order list that the bot tells apart:
\* 1 (not yet processed), 3, 5 (finished), 6 (executed).
BrokerStates == {1, 3, 5, 6}

VARIABLES
    config,                   \* the values read from config.ini
    state,                    \* BotState
    is_bot_running,
    current_price,
    entry_order_id,
    stop_loss_order_id,
    entry_price,
    entry_time,
    stop_loss_price,
    take_profit_price,
    df_1min,                  \* BarSeries: sequence of 1-minute bars
    ticks_in_current_bar,     \* the shared tick buffer
    last_bar_timestamp,
    dip_flag_on,
    lowest_price_value,
    lowest_price_bar_index,
    reversal_point,
    dip_start_timestamp,
    entry_order_check_retries,
    last_market_status_logged,
    exit_reason,              \* local variable of run()
    pc,                       \* position of the control thread inside run()
    now,                      \* wall clock, minutes since midnight
    start_minute,             \* the minute the process was started
    ws_open,                  \* the feed subscription is open
    orders,                   \* the broker's orders; an order's id is its index
    sent,                     \* notifications sent by the latest control step
    calls,                    \* broker calls made by the latest control step
    polls,                    \* order lists read in search of the entry
                              \* order since it was submitted
    \* The next five are used where the feed thread and the control thread
    \* are interleaved statement by statement (SpecBuffer).
    ticks_lock,               \* the thread that holds self.ticks_lock
    feed_pc,                  \* position of the feed thread in on_message
    ticks_to_process,         \* local variable of _aggregate_ticks
    received,                 \* history: the ticks on_message appended
    bar_ticks,                \* history: the ticks of each emitted bar
    \* The rest are locals of run_backtest (src/Honban/backtest_logic.py),
    \* which also has locals named df_1min, dip_flag_on,
    \* lowest_price_bar_index, lowest_price_value, reversal_point,
    \* entry_price, entry_time, stop_loss_price and take_profit_price: in the
    \* specifications of the backtest the variables above hold those.
    day_i,                    \* i, the index into unique_days
    setup_j,                  \* j, the index into df_setup
    exit_k,                   \* k, the index into exit_search_df
    entry_found,
    profit,
    trades,
    total_profit,
    wins,
    losses,
    gross_profit,
    gross_loss,
    results,                  \* what run_backtest returned, None before
    report                    \* what the __main__ block logged about it

botVars == <<state, is_bot_running, entry_order_id, stop_loss_order_id,
             entry_price, entry_time, stop_loss_price, take_profit_price,
             entry_order_check_retries>>
dipVars == <<dip_flag_on, lowest_price_value, lowest_price_bar_index,
             reversal_point, dip_start_timestamp>>
barVars == <<df_1min, last_bar_timestamp>>
bufVars == <<ticks_lock, feed_pc, ticks_to_process, received, bar_ticks>>
statVars == <<trades, total_profit, wins, losses, gross_profit, gross_loss>>
backtestVars ==
    <<day_i, setup_j, exit_k, entry_found, profit, statVars, results, report>>
vars == <<config, state, is_bot_running, current_price, entry_order_id,
          stop_loss_order_id, entry_price, entry_time, stop_loss_price,
          take_profit_price, df_1min, ticks_in_current_bar,
          last_bar_timestamp, dip_flag_on, lowest_price_value,
          lowest_price_bar_index, reversal_point, dip_start_timestamp,
          entry_order_check_retries, last_market_status_logged, exit_reason,
          pc, now, start_minute, ws_open, orders, sent, calls, polls,
          ticks_lock, feed_pc, ticks_to_process, received, bar_ticks,
          day_i, setup_j, exit_k, entry_found, profit, trades, total_profit,
          wins, losses, gross_profit, gross_loss, results, report>>

\* ------------------------------------------------------------------ helpers
Min(a, b) == IF a < b THEN a ELSE b
Max(a, b) == IF a > b THEN a ELSE b

RECURSIVE SeqMax(_)
SeqMax(s) == IF Len(s) = 1 THEN s[1] ELSE Max(s[1], SeqMax(Tail(s)))

RECURSIVE SeqMin(_)
SeqMin(s) == IF Len(s) = 1 THEN s[1] ELSE Min(s[1], SeqMin(Tail(s)))

\* Python's round() of the rational num/den (den > 0): nearest integer, ties
\* to the even neighbour.
PyRound(num, den) ==
    LET q == num \div den
        r == num % den
    IN  IF 2 * r < den THEN q
        ELSE IF 2 * r > den THEN q + 1
        ELSE IF q % 2 = 0 THEN q ELSE q + 1

Bar(ts, o, h, l, c) ==
    [ts |-> ts, Open |-> o, High |-> h, Low |-> l, Close |-> c, Volume |-> 0]

\* A bar all of whose prices are p.
FlatBar(ts, p) == Bar(ts, p, p, p, p)

\* ------------------------------------------------------------- resampling
\* pandas resample(f'{w}T', label='right', closed='right'): a row stamped t
\* falls into the bin (L - w, L] and the bin is labelled L.
BinLabel(t, w) == ((t + w - 1) \div w) * w

RECURSIVE Resample(_, _)
Resample(df, w) ==
    IF df = <<>> THEN <<>>
    ELSE LET label == BinLabel(df[1].ts, w)
             inBin == SelectSeq(df, LAMBDA b : BinLabel(b.ts, w) = label)
             rest == SelectSeq(df, LAMBDA b : BinLabel(b.ts, w) # label)
             agg == [ts |-> label,
                     Open |-> inBin[1].Open,
                     High |-> SeqMax([i \in 1..Len(inBin) |-> inBin[i].High]),
                     Low |-> SeqMin([i \in 1..Len(inBin) |-> inBin[i].Low]),
                     Close |-> inBin[Len(inBin)].Close,
                     Volume |-> 0]
         IN  <<agg>> \o Resample(rest, w)

\* The setup-timeframe bars the detector scans: resampled, then without the
\* bar labelled 9:00.
SetupBars(df, cfg) ==
    SelectSeq(Resample(df, cfg.setup_timeframe_mins),
              LAMBDA b : b.ts % 1440 # NINE_OCLOCK)

TriggerBars(df, cfg) == Resample(df, cfg.trigger_timeframe_mins)

\* ------------------------------------------------- dip / reversal detector
DipState(flag, start, lowest, idx, rp) ==
    [dip_flag_on |-> flag, dip_start_timestamp |-> start,
     lowest_price_value |-> lowest, lowest_price_bar_index |-> idx,
     reversal_point |-> rp]

EmptyDip == DipState(FALSE, None, Inf, -1, None)

\* Lines 178-183: the closes of the bars j-2, j-1, j fall, j a 0-based index
\* of df_setup.  DipCondition_NotStrict lets equal closes count as a fall,
\* DipCondition_TwoCloses compares the last two closes only.
DipCondition_TwoCloses(df_setup, j) ==
    /\ j >= 2
    /\ df_setup[j + 1].Close < df_setup[j].Close
DipCondition_NotStrict(df_setup, j) ==
    /\ j >= 2
    /\ df_setup[j + 1].Close <= df_setup[j].Close
    /\ df_setup[j].Close <= df_setup[j - 1].Close
DipCondition(df_setup, j) ==
    /\ j >= 2
    /\ df_setup[j + 1].Close < df_setup[j].Close
    /\ df_setup[j].Close < df_setup[j - 1].Close

\* Lines 184-190: a dip while the flag is off starts a dip sequence at bar j.
StartDip(d, df_setup, j) ==
    IF DipCondition(df_setup, j) /\ ~d.dip_flag_on
    THEN [d EXCEPT !.dip_flag_on = TRUE,
                   !.dip_start_timestamp = df_setup[j + 1].ts,
                   !.lowest_price_value = Inf,
                   !.lowest_price_bar_index = -1]
    ELSE d

\* Lines 193-200: the lowest low at or after the start of the dip.
\* TrackLowest_LatestOfEqual also moves to a bar whose low equals the lowest.
\* TrackLowest_BeforeDipStart also looks at the bars before the dip started.
TrackLowest_BeforeDipStart(d, df_setup, j) ==
    IF /\ d.dip_flag_on
       /\ df_setup[j + 1].Low < d.lowest_price_value
    THEN [d EXCEPT !.lowest_price_value = df_setup[j + 1].Low,
                   !.lowest_price_bar_index = j]
    ELSE d
TrackLowest_LatestOfEqual(d, df_setup, j) ==
    IF /\ d.dip_flag_on
       /\ d.dip_start_timestamp # None
       /\ df_setup[j + 1].ts >= d.dip_start_timestamp
       /\ df_setup[j + 1].Low <= d.lowest_price_value
    THEN [d EXCEPT !.lowest_price_value = df_setup[j + 1].Low,
                   !.lowest_price_bar_index = j]
    ELSE d
TrackLowest(d, df_setup, j) ==
    IF /\ d.dip_flag_on
       /\ d.dip_start_timestamp # None
       /\ df_setup[j + 1].ts >= d.dip_start_timestamp
       /\ df_setup[j + 1].Low < d.lowest_price_value
    THEN [d EXCEPT !.lowest_price_value = df_setup[j + 1].Low,
                   !.lowest_price_bar_index = j]
    ELSE d

\* Lines 203-207: the reversal point, two bars after the lowest bar.
\* SetReversal_OneBarBack takes the high one bar before the lowest bar;
\* SetReversal_OneBarEarly sets the point one bar after the lowest bar.
SetReversal_OneBarBack(d, df_setup, j) ==
    IF /\ d.dip_flag_on
       /\ d.lowest_price_bar_index # -1
       /\ j >= d.lowest_price_bar_index + 2
       /\ d.lowest_price_bar_index >= 2
    THEN [d EXCEPT !.reversal_point =
              df_setup[d.lowest_price_bar_index - 1 + 1].High]
    ELSE d
SetReversal_OneBarEarly(d, df_setup, j) ==
    IF /\ d.dip_flag_on
       /\ d.lowest_price_bar_index # -1
       /\ j >= d.lowest_price_bar_index + 1
       /\ d.lowest_price_bar_index >= 2
    THEN [d EXCEPT !.reversal_point =
              df_setup[d.lowest_price_bar_index - 2 + 1].High]
    ELSE d
SetReversal(d, df_setup, j) ==
    IF /\ d.dip_flag_on
       /\ d.lowest_price_bar_index # -1
       /\ j >= d.lowest_price_bar_index + 2
       /\ d.lowest_price_bar_index >= 2
    THEN [d EXCEPT !.reversal_point =
              df_setup[d.lowest_price_bar_index - 2 + 1].High]
    ELSE d

\* One iteration of the scan loop of _update_setup_signal for the 0-based
\* index j of df_setup.
DetectorStep(d, df_setup, j) ==
    SetReversal(TrackLowest(StartDip(d, df_setup, j), df_setup, j),
                df_setup, j)

RECURSIVE DetectorScan(_, _, _)
DetectorScan(d, df_setup, j) ==
    IF j >= Len(df_setup) THEN d
    ELSE DetectorScan(DetectorStep(d, df_setup, j), df_setup, j + 1)

\* _update_setup_signal: the DipState after the call, from the DipState
\* before it and the 1-minute series.
UpdateSetupSignal(d, df, cfg) ==
    IF Len(df) < cfg.setup_timeframe_mins * 3 THEN d
    ELSE LET df_setup == SetupBars(df, cfg)
         IN  IF Len(df_setup) < 3 THEN d
             ELSE DetectorScan(d, df_setup, 0)

CurrentDip == DipState(dip_flag_on, dip_start_timestamp, lowest_price_value,
                       lowest_price_bar_index, reversal_point)

\* The assignment of a DipState value to the bot's fields.
SetDip(d) ==
    /\ dip_flag_on' = d.dip_flag_on
    /\ dip_start_timestamp' = d.dip_start_timestamp
    /\ lowest_price_value' = d.lowest_price_value
    /\ lowest_price_bar_index' = d.lowest_price_bar_index
    /\ reversal_point' = d.reversal_point

\* ------------------------------------------------------- bar aggregation
\* The bar _aggregate_ticks builds from a non-empty swapped-out buffer; it
\* is stamped with last_bar_timestamp.  NewBar_CloseFromFirst takes the
\* close from the first tick.
NewBar_CloseFromFirst(ticks, ts) ==
    LET prices == [i \in 1..Len(ticks) |-> ticks[i].Price]
    IN  Bar(ts, prices[1], SeqMax(prices), SeqMin(prices), prices[1])
NewBar(ticks, ts) ==
    LET prices == [i \in 1..Len(ticks) |-> ticks[i].Price]
    IN  Bar(ts, prices[1], SeqMax(prices), SeqMin(prices), prices[Len(prices)])

\* ------------------------------------------------------------ the broker
Order(kind, qty, price) ==
    [kind |-> kind, qty |-> qty, price |-> price, State |-> 1, Price |-> 0,
     listed |-> FALSE, cancel_requested |-> FALSE]

\* get_orders_list, on success: the ids of the orders the list shows.
ListedIds == {i \in 1..Len(orders) : orders[i].listed}

\* How the bot's handlers read an order of the list.
\* Lines 423-432 and 504-512: state 5 or 6 with an execution detail that
\* carries a positive price.
ShowsExecuted(o) == o.State \in {5, 6} /\ o.Price > 0
\* A finished order without any execution.
ShowsCancelled(o) == o.State = 5 /\ o.Price = 0
\* Neither finished nor executed.
ShowsWorking(o) == o.State \in {1, 3}

\* The broker accepts a submission only while it has room (MaxOrders); it
\* may reject any submission.
CanAccept == Len(orders) < MaxOrders

\* Lines 439-440: round() of the entry price less, and plus, the configured
\* percentage.  StopLossPrice_HalfUp rounds a tie upwards instead.
StopLossPrice_HalfUp(p, cfg) ==
    (2 * p * (100 - cfg.stop_loss_percent) + 100) \div 200
StopLossPrice(p, cfg) == PyRound(p * (100 - cfg.stop_loss_percent), 100)
TakeProfitPrice(p, cfg) == PyRound(p * (100 + cfg.take_profit_percent), 100)

Notice(subject, kind) == [subject |-> subject, kind |-> kind]
Call(op, arg) == [op |-> op, arg |-> arg]

\* ---------------------------------------------------------- initial state
\* config.ini as the constructor reads it (lines 26-38).
Config(auto, setup, trigger) ==
    [qty |-> 100, auto_trade_enabled |-> auto,
     setup_timeframe_mins |-> setup, trigger_timeframe_mins |-> trigger,
     stop_loss_percent |-> 1, take_profit_percent |-> 1,
     enable_start_stop_notifications |-> TRUE]

\* What _load_historical_data can find in the store at minute t: nothing, or
\* four flat bars closing 100, 99, 98, 99 in the minutes before t.  A fifth
\* bar then sets the reversal point to 100, the lower of the two tick prices.
DipHistory(t) ==
    <<FlatBar(t - 4, 100), FlatBar(t - 3, 99), FlatBar(t - 2, 98),
      FlatBar(t - 1, 99)>>

Histories(t) == {<<>>, DipHistory(t)}

\* The fields __init__ sets (lines 51-76), the clock at minute t; the
\* backtest has not run.
BotConstructed(cfg, t) ==
    /\ config = cfg
    /\ state = "IDLE"
    /\ is_bot_running = TRUE
    /\ current_price = 0
    /\ entry_order_id = None
    /\ stop_loss_order_id = None
    /\ entry_price = 0
    /\ entry_time = None
    /\ stop_loss_price = 0
    /\ take_profit_price = 0
    /\ df_1min = <<>>
    /\ ticks_in_current_bar = <<>>
    /\ last_bar_timestamp = None
    /\ dip_flag_on = FALSE
    /\ lowest_price_value = Inf
    /\ lowest_price_bar_index = -1
    /\ reversal_point = None
    /\ dip_start_timestamp = None
    /\ entry_order_check_retries = 0
    /\ last_market_status_logged = "none"
    /\ exit_reason = "Unknown"
    /\ now = t
    /\ start_minute = t
    /\ ws_open = FALSE
    /\ orders = <<>>
    /\ sent = <<>>
    /\ calls = <<>>
    /\ polls = 0
    /\ ticks_lock = "free"
    /\ feed_pc = "idle"
    /\ ticks_to_process = <<>>
    /\ received = <<>>
    /\ bar_ticks = <<>>
    /\ day_i = 0
    /\ setup_j = 0
    /\ exit_k = 0
    /\ entry_found = FALSE
    /\ profit = 0
    /\ trades = <<>>
    /\ total_profit = 0
    /\ wins = 0
    /\ losses = 0
    /\ gross_profit = 0
    /\ gross_loss = 0
    /\ results = None
    /\ report = <<>>

\* The state __init__ leaves, run() about to be called at minute t.
Constructed(cfg, t) == BotConstructed(cfg, t) /\ pc = "start"

\* The minutes at which the model starts the process: 9:05 in the morning
\* window, and 15:29, a minute before the end-of-day deadline.
MorningStart == MARKET_OPEN_AM + 5
StartMinutes == {MorningStart, END_OF_DAY - 1}

Init ==
    \E auto \in BOOLEAN, t \in StartMinutes :
        Constructed(Config(auto, 1, 1), t)

\* Lines 294-297, at the resolution of the model's clock: a minute in which
\* the trading windows 09:00-11:30 and 12:30-15:00 are open.
IsMarketOpen(t) ==
    \/ MARKET_OPEN_AM <= t /\ t < MARKET_CLOSE_AM
    \/ MARKET_OPEN_PM <= t /\ t < MARKET_CLOSE_PM

MarketStatus(t) == IF IsMarketOpen(t) THEN "open" ELSE "closed"

\* --------------------------------------------------------- the environment
\* The control thread sleeps (time.sleep at lines 279, 317 and 359) and will
\* run again.  The model lets time pass and the feed deliver while it sleeps.
Sleeping == pc \in {"wait_price", "loop"} /\ is_bot_running

\* The control thread is about to run a state handler, which is where the
\* bot reads the order list; the model moves the broker's orders there.
Polling == pc = "dispatch"

\* The order that the handler about to run looks up in the list.
Watched ==
    CASE state = "WAITING_FOR_ENTRY" -> {entry_order_id}
      [] state \in {"POSITION_OPEN", "WAITING_FOR_CANCEL"} -> {stop_loss_order_id}
      [] OTHER -> {}

\* on_message (lines 213-238) for a message that carries the price p, the
\* buffer holding fewer than n ticks.
OnMessageWithin(n, p) ==
    /\ Sleeping
    /\ ws_open
    /\ Len(ticks_in_current_bar) < n
    /\ current_price' = p
    /\ ticks_in_current_bar' =
           Append(ticks_in_current_bar, [Timestamp |-> now, Price |-> p])
    /\ UNCHANGED <<config, bufVars, backtestVars, botVars, dipVars, barVars,
                   last_market_status_logged, exit_reason, pc, now,
                   start_minute, ws_open, orders, sent, calls, polls>>

\* on_error / on_close (lines 240-246): the feed is gone.
OnClose ==
    /\ Sleeping
    /\ ws_open
    /\ ws_open' = FALSE
    /\ is_bot_running' = FALSE
    /\ UNCHANGED <<config, bufVars, backtestVars, state, current_price, entry_order_id,
                   stop_loss_order_id, entry_price, entry_time,
                   stop_loss_price, take_profit_price, dipVars, barVars,
                   ticks_in_current_bar, entry_order_check_retries,
                   last_market_status_logged, exit_reason, pc, now,
                   start_minute, orders, sent, calls, polls>>

\* A minute of wall-clock time passes, at most n minutes after the start.
\* In an open trading window the loop, which sleeps one second per
\* iteration, has seen the current minute before the next one begins.
ClockTickWithin(n) ==
    /\ Sleeping
    /\ pc = "loop" /\ IsMarketOpen(now) => now <= last_bar_timestamp
    /\ now < start_minute + n
    /\ now' = now + 1
    /\ UNCHANGED <<config, bufVars, backtestVars, botVars, current_price, dipVars, barVars,
                   ticks_in_current_bar, last_market_status_logged,
                   exit_reason, pc, start_minute, ws_open, orders, sent,
                   calls, polls>>

ClockTick == ClockTickWithin(MaxMinutes)

OnMessage(p) == OnMessageWithin(MaxTicks, p)

\* The order list starts to show order i.
BrokerList(i) ==
    /\ Polling
    /\ i \in Watched
    /\ ~orders[i].listed
    /\ orders' = [orders EXCEPT ![i].listed = TRUE]
    /\ UNCHANGED <<config, bufVars, backtestVars, botVars, current_price, dipVars, barVars,
                   ticks_in_current_bar, last_market_status_logged,
                   exit_reason, pc, now, start_minute, ws_open, sent, calls,
                   polls>>

\* Order of the state codes along an order's life.
Rank(s) == CASE s = 1 -> 1 [] s = 3 -> 2 [] s = 6 -> 3 [] s = 5 -> 4

\* The broker moves a watched order on: to a later state code, or it
\* adds the execution price; state 5 is final and an execution price, once
\* reported, stays.
BrokerUpdate(i, s, p) ==
    /\ Polling
    /\ i \in Watched
    /\ orders[i].listed
    /\ orders[i].State # 5
    /\ Rank(s) >= Rank(orders[i].State)
    /\ p > 0 => s \in {5, 6}
    /\ orders[i].Price > 0 => p = orders[i].Price
    /\ <<s, p>> # <<orders[i].State, orders[i].Price>>
    /\ orders' = [orders EXCEPT ![i].State = s, ![i].Price = p]
    /\ UNCHANGED <<config, bufVars, backtestVars, botVars, current_price, dipVars, barVars,
                   ticks_in_current_bar, last_market_status_logged,
                   exit_reason, pc, now, start_minute, ws_open, sent, calls,
                   polls>>

\* --------------------------------------------------------- run(): start-up
\* Lines 258-263: auto trading is disabled.
RunDisabled ==
    /\ pc = "start"
    /\ ~config.auto_trade_enabled
    /\ sent' = IF config.enable_start_stop_notifications
               THEN <<Notice("notice", "auto_trade_disabled")>> ELSE <<>>
    /\ calls' = <<>>
    /\ exit_reason' = "Auto trade disabled in config."
    /\ pc' = "finally"
    /\ UNCHANGED <<config, bufVars, backtestVars, botVars, current_price, dipVars, barVars,
                   ticks_in_current_bar, last_market_status_logged, now,
                   start_minute, ws_open, orders, polls>>

\* Lines 265-273: the start notification, the token, the history, the feed.
RunStartWith(token_ok, history) ==
    /\ pc = "start"
    /\ config.auto_trade_enabled
    /\ sent' = IF config.enable_start_stop_notifications
               THEN <<Notice("start", "start")>> ELSE <<>>
    /\ calls' = <<Call("get_token", None)>>
    /\ IF token_ok
       THEN /\ df_1min' = history
            /\ ws_open' = TRUE
            /\ pc' = "wait_price"
            /\ UNCHANGED exit_reason
       ELSE /\ exit_reason' = "Failed to get API token."
            /\ pc' = "finally"
            /\ UNCHANGED <<df_1min, ws_open>>
    /\ UNCHANGED <<config, bufVars, backtestVars, botVars, current_price, dipVars,
                   last_bar_timestamp, ticks_in_current_bar,
                   last_market_status_logged, now, start_minute, orders,
                   polls>>

\* run() starts and finds one of the Histories in the store.
RunStart(token_ok, history) ==
    /\ history \in Histories(now)
    /\ RunStartWith(token_ok, history)

\* Lines 275-285: the wait for the first price ends.
WaitPrice ==
    /\ pc = "wait_price"
    /\ current_price # 0 \/ ~is_bot_running
    /\ IF ~is_bot_running
       THEN /\ exit_reason' =
                   "WebSocket connection failed or closed during startup."
            /\ pc' = "finally"
            /\ UNCHANGED last_bar_timestamp
       ELSE /\ last_bar_timestamp' = now
            /\ pc' = "loop"
            /\ UNCHANGED exit_reason
    /\ sent' = <<>>
    /\ calls' = <<>>
    /\ UNCHANGED <<config, bufVars, backtestVars, botVars, current_price, dipVars, df_1min,
                   ticks_in_current_bar, last_market_status_logged, now,
                   start_minute, ws_open, orders, polls>>

\* ------------------------------------------------------ run(): the loop
\* Line 308.
DeadlineReached == now >= END_OF_DAY /\ state = "IDLE"

\* Line 360: the statement after the loop.
FLAG_REASON == "is_bot_running flag became false"

\* Lines 286 and 360: the loop condition is false, the loop ends and the
\* statement after it runs.
LoopExit ==
    /\ pc = "loop"
    /\ ~is_bot_running
    /\ exit_reason' = FLAG_REASON
    /\ pc' = "finally"
    /\ sent' = <<>>
    /\ calls' = <<>>
    /\ UNCHANGED <<config, bufVars, backtestVars, botVars, current_price, dipVars, barVars,
                   ticks_in_current_bar, last_market_status_logged, now,
                   start_minute, ws_open, orders, polls>>

\* Lines 308-312: the end-of-day shutdown of an idle bot.
LoopDeadline ==
    /\ pc = "loop"
    /\ is_bot_running
    /\ DeadlineReached
    /\ last_market_status_logged' = MarketStatus(now)
    /\ exit_reason' = "Market close and no open position."
    /\ is_bot_running' = FALSE
    /\ pc' = "after_loop"
    /\ sent' = <<>>
    /\ calls' = <<>>
    /\ UNCHANGED <<config, bufVars, backtestVars, state, current_price, entry_order_id,
                   stop_loss_order_id, entry_price, entry_time,
                   stop_loss_price, take_profit_price,
                   entry_order_check_retries, dipVars, barVars,
                   ticks_in_current_bar, now, start_minute, ws_open, orders,
                   polls>>

\* Lines 314-318: outside the trading windows the loop only sleeps.
LoopMarketClosed ==
    /\ pc = "loop"
    /\ is_bot_running
    /\ ~DeadlineReached
    /\ ~IsMarketOpen(now)
    /\ last_market_status_logged' = "closed"
    /\ sent' = <<>>
    /\ calls' = <<>>
    /\ UNCHANGED <<config, bufVars, backtestVars, botVars, current_price, dipVars, barVars,
                   ticks_in_current_bar, exit_reason, pc, now, start_minute,
                   ws_open, orders, polls>>

\* Line 360, reached by the break of line 312.
AfterLoop ==
    /\ pc = "after_loop"
    /\ exit_reason' = FLAG_REASON
    /\ pc' = "finally"
    /\ UNCHANGED <<config, bufVars, backtestVars, botVars, current_price, dipVars, barVars,
                   ticks_in_current_bar, last_market_status_logged, now,
                   start_minute, ws_open, orders, sent, calls, polls>>

\* The loop body is entered in an open trading window.
LoopOpen ==
    /\ pc = "loop"
    /\ is_bot_running
    /\ ~DeadlineReached
    /\ IsMarketOpen(now)

\* Line 320.
NewMinute == now > last_bar_timestamp
\* Lines 322-323: _aggregate_ticks returned True.
IsNewBar == NewMinute /\ ticks_in_current_bar # <<>>
\* Line 151: df_1min after the rollover.
DfAfterRollover ==
    IF IsNewBar
    THEN Append(df_1min, NewBar(ticks_in_current_bar, last_bar_timestamp))
    ELSE df_1min
\* Line 325: DipState after the rollover.
DipAfterRollover ==
    IF IsNewBar THEN UpdateSetupSignal(CurrentDip, DfAfterRollover, config)
    ELSE CurrentDip
\* Lines 328-337: a reversal point is set and the close of the last trigger
\* bar is above it.  TriggerFires_OnEqual also fires on a close equal to it.
TriggerFires_OnEqual(d, df, cfg) ==
    /\ d.reversal_point # None
    /\ LET df_trigger == TriggerBars(df, cfg)
       IN  /\ df_trigger # <<>>
           /\ df_trigger[Len(df_trigger)].Close >= d.reversal_point
TriggerFires(d, df, cfg) ==
    /\ d.reversal_point # None
    /\ LET df_trigger == TriggerBars(df, cfg)
       IN  /\ df_trigger # <<>>
           /\ df_trigger[Len(df_trigger)].Close > d.reversal_point

\* Lines 327-337: the entry trigger fires.
EntrySignal ==
    /\ IsNewBar
    /\ state = "IDLE"
    /\ TriggerFires(DipAfterRollover, DfAfterRollover, config)

\* Lines 320-348 when no bar is produced: not a new minute, or an empty
\* buffer.
LoopNoNewBar ==
    /\ LoopOpen
    /\ ~IsNewBar
    /\ last_bar_timestamp' = IF NewMinute THEN now ELSE last_bar_timestamp
    /\ last_market_status_logged' = "open"
    /\ pc' = "dispatch"
    /\ sent' = <<>>
    /\ calls' = <<>>
    /\ UNCHANGED <<config, bufVars, backtestVars, botVars, current_price, dipVars, df_1min,
                   ticks_in_current_bar, exit_reason, now, start_minute,
                   ws_open, orders, polls>>

\* Lines 320-348 when a bar is produced and no entry is triggered.
LoopNewBar ==
    /\ LoopOpen
    /\ IsNewBar
    /\ ~EntrySignal
    /\ ticks_in_current_bar' = <<>>
    /\ df_1min' = DfAfterRollover
    /\ SetDip(DipAfterRollover)
    /\ last_bar_timestamp' = now
    /\ last_market_status_logged' = "open"
    /\ pc' = "dispatch"
    /\ sent' = <<>>
    /\ calls' = <<>>
    /\ UNCHANGED <<config, bufVars, backtestVars, botVars, current_price, exit_reason, now,
                   start_minute, ws_open, orders, polls>>

\* LoopEntry without lines 397-398: the lowest-low tracking survives the entry.
LoopEntry_KeepsLowestLow(ok) ==
    /\ LoopOpen
    /\ EntrySignal
    /\ ok => CanAccept
    /\ ticks_in_current_bar' = <<>>
    /\ df_1min' = DfAfterRollover
    /\ last_bar_timestamp' = now
    /\ last_market_status_logged' = "open"
    /\ pc' = "dispatch"
    /\ calls' = <<Call("send_market_order", config.qty)>>
    /\ IF ok
       THEN /\ orders' = Append(orders, Order("buy", config.qty, None))
            /\ entry_order_id' = Len(orders) + 1
            /\ sent' = <<Notice("order", "entry_order")>>
            /\ state' = "WAITING_FOR_ENTRY"
            /\ entry_order_check_retries' = 0
            /\ polls' = 0
            /\ SetDip([EmptyDip EXCEPT
                   !.lowest_price_value = DipAfterRollover.lowest_price_value,
                   !.lowest_price_bar_index =
                       DipAfterRollover.lowest_price_bar_index])
            /\ UNCHANGED is_bot_running
       ELSE /\ sent' = <<Notice("error", "entry_order_failed")>>
            /\ is_bot_running' = FALSE
            /\ SetDip(DipAfterRollover)
            /\ UNCHANGED <<orders, entry_order_id, state,
                           entry_order_check_retries, polls>>
    /\ UNCHANGED <<config, bufVars, backtestVars, current_price, stop_loss_order_id, entry_price,
                   entry_time, stop_loss_price, take_profit_price,
                   exit_reason, now, start_minute, ws_open>>

\* _trigger_entry (lines 381-403) inside the rollover; ok is the broker's
\* answer to send_market_order.
LoopEntry(ok) ==
    /\ LoopOpen
    /\ EntrySignal
    /\ ok => CanAccept
    /\ ticks_in_current_bar' = <<>>
    /\ df_1min' = DfAfterRollover
    /\ last_bar_timestamp' = now
    /\ last_market_status_logged' = "open"
    /\ pc' = "dispatch"
    /\ calls' = <<Call("send_market_order", config.qty)>>
    /\ IF ok
       THEN /\ orders' = Append(orders, Order("buy", config.qty, None))
            /\ entry_order_id' = Len(orders) + 1
            /\ sent' = <<Notice("order", "entry_order")>>
            /\ state' = "WAITING_FOR_ENTRY"
            /\ entry_order_check_retries' = 0
            /\ polls' = 0
            /\ SetDip(EmptyDip)
            /\ UNCHANGED is_bot_running
       ELSE /\ sent' = <<Notice("error", "entry_order_failed")>>
            /\ is_bot_running' = FALSE
            /\ SetDip(DipAfterRollover)
            /\ UNCHANGED <<orders, entry_order_id, state,
                           entry_order_check_retries, polls>>
    /\ UNCHANGED <<config, bufVars, backtestVars, current_price, stop_loss_order_id, entry_price,
                   entry_time, stop_loss_price, take_profit_price,
                   exit_reason, now, start_minute, ws_open>>

LoopEntryAccepted == LoopEntry(TRUE)
LoopEntryRejected == LoopEntry(FALSE)

\* Lines 350-357 when state is IDLE: no handler runs.
DispatchIdle ==
    /\ pc = "dispatch"
    /\ state = "IDLE"
    /\ pc' = "loop"
    /\ sent' = <<>>
    /\ calls' = <<>>
    /\ UNCHANGED <<config, bufVars, backtestVars, botVars, current_price, dipVars, barVars,
                   ticks_in_current_bar, last_market_status_logged,
                   exit_reason, now, start_minute, ws_open, orders,
                   polls>>

\* ------------------------------------- _handle_state_waiting_for_entry
\* get_orders_list answered with the list, and get_orders_list failing.
QueryCall == Call("get_orders_list", TRUE)
QueryFailedCall == Call("get_orders_list", FALSE)

\* Lines 414-418: the entry order is in the list.
EntryFound == entry_order_id \in ListedIds
\* Line 423.
EntryInExecutedBranch == EntryFound /\ orders[entry_order_id].State \in {5, 6}
\* Lines 425-432.
EntryExecuted == EntryInExecutedBranch /\ orders[entry_order_id].Price > 0
\* Line 460: the elif branch, taken only when line 423 was false.
EntryInFailedBranch ==
    /\ EntryFound
    /\ ~EntryInExecutedBranch
    /\ orders[entry_order_id].State \in {3, 5}

\* Lines 407-412: the query of the order list fails.
WfeQueryFailed ==
    /\ pc = "dispatch"
    /\ state = "WAITING_FOR_ENTRY"
    /\ is_bot_running' = FALSE
    /\ pc' = "loop"
    /\ sent' = <<>>
    /\ calls' = <<QueryFailedCall>>
    /\ UNCHANGED <<config, bufVars, backtestVars, state, current_price, entry_order_id,
                   stop_loss_order_id, entry_price, entry_time,
                   stop_loss_price, take_profit_price,
                   entry_order_check_retries, dipVars, barVars,
                   ticks_in_current_bar, last_market_status_logged,
                   exit_reason, now, start_minute, ws_open, orders,
                   polls>>

\* WfeFilled with the state change moved ahead of the stop placement: the bot
\* enters POSITION_OPEN whether or not the stop order was accepted.
WfeFilled_OpenWithoutStop(ok) ==
    /\ pc = "dispatch"
    /\ state = "WAITING_FOR_ENTRY"
    /\ EntryExecuted
    /\ ok => CanAccept
    /\ LET price == orders[entry_order_id].Price
           sl == StopLossPrice(price, config)
           tp == TakeProfitPrice(price, config)
       IN  /\ entry_price' = price
           /\ entry_time' = now
           /\ stop_loss_price' = sl
           /\ take_profit_price' = tp
           /\ calls' = <<QueryCall,
                         Call("send_stop_sell_order", <<config.qty, sl>>)>>
           /\ IF ok
              THEN /\ orders' = Append(orders, Order("stop", config.qty, sl))
                   /\ stop_loss_order_id' = Len(orders) + 1
                   /\ state' = "POSITION_OPEN"
                   /\ sent' = <<Notice("fill", "entry_filled")>>
                   /\ UNCHANGED is_bot_running
              ELSE /\ sent' = <<Notice("fill", "entry_filled"),
                                Notice("error", "emergency_stop_place_failed")>>
                   /\ is_bot_running' = FALSE
                   /\ state' = "POSITION_OPEN"
                   /\ UNCHANGED <<orders, stop_loss_order_id>>
    /\ polls' = polls + 1
    /\ pc' = "loop"
    /\ UNCHANGED <<config, bufVars, backtestVars, current_price, entry_order_id,
                   entry_order_check_retries, dipVars, barVars,
                   ticks_in_current_bar, last_market_status_logged,
                   exit_reason, now, start_minute, ws_open>>

\* Lines 432-456: the entry order is executed; ok is the broker's answer to
\* send_stop_sell_order.
WfeFilled(ok) ==
    /\ pc = "dispatch"
    /\ state = "WAITING_FOR_ENTRY"
    /\ EntryExecuted
    /\ ok => CanAccept
    /\ LET price == orders[entry_order_id].Price
           sl == StopLossPrice(price, config)
           tp == TakeProfitPrice(price, config)
       IN  /\ entry_price' = price
           /\ entry_time' = now
           /\ stop_loss_price' = sl
           /\ take_profit_price' = tp
           /\ calls' = <<QueryCall,
                         Call("send_stop_sell_order", <<config.qty, sl>>)>>
           /\ IF ok
              THEN /\ orders' = Append(orders, Order("stop", config.qty, sl))
                   /\ stop_loss_order_id' = Len(orders) + 1
                   /\ state' = "POSITION_OPEN"
                   /\ sent' = <<Notice("fill", "entry_filled")>>
                   /\ UNCHANGED is_bot_running
              ELSE /\ sent' = <<Notice("fill", "entry_filled"),
                                Notice("error", "emergency_stop_place_failed")>>
                   /\ is_bot_running' = FALSE
                   /\ UNCHANGED <<orders, stop_loss_order_id, state>>
    /\ polls' = polls + 1
    /\ pc' = "loop"
    /\ UNCHANGED <<config, bufVars, backtestVars, current_price, entry_order_id,
                   entry_order_check_retries, dipVars, barVars,
                   ticks_in_current_bar, last_market_status_logged,
                   exit_reason, now, start_minute, ws_open>>

WfeFilledStopPlaced == WfeFilled(TRUE)
WfeFilledStopRejected == WfeFilled(FALSE)

\* Lines 460-465: the entry order failed or was cancelled.
WfeFailedOrCancelled ==
    /\ pc = "dispatch"
    /\ state = "WAITING_FOR_ENTRY"
    /\ EntryInFailedBranch
    /\ state' = "IDLE"
    /\ entry_order_id' = None
    /\ polls' = polls + 1
    /\ pc' = "loop"
    /\ sent' = <<>>
    /\ calls' = <<QueryCall>>
    /\ UNCHANGED <<config, bufVars, backtestVars, is_bot_running, current_price,
                   stop_loss_order_id, entry_price, entry_time,
                   stop_loss_price, take_profit_price,
                   entry_order_check_retries, dipVars, barVars,
                   ticks_in_current_bar, last_market_status_logged,
                   exit_reason, now, start_minute, ws_open, orders>>

\* The handler reaches line 467: the order is absent, or it is listed and
\* neither branch above returned.
WfeFallsThrough == ~EntryExecuted /\ ~EntryInFailedBranch

\* Lines 468-471: another retry.
WfeRetry ==
    /\ pc = "dispatch"
    /\ state = "WAITING_FOR_ENTRY"
    /\ WfeFallsThrough
    /\ entry_order_check_retries < MAX_ENTRY_RETRIES
    /\ entry_order_check_retries' = entry_order_check_retries + 1
    /\ polls' = polls + 1
    /\ pc' = "loop"
    /\ sent' = <<>>
    /\ calls' = <<QueryCall>>
    /\ UNCHANGED <<config, bufVars, backtestVars, state, is_bot_running, current_price,
                   entry_order_id, stop_loss_order_id, entry_price,
                   entry_time, stop_loss_price, take_profit_price, dipVars,
                   barVars, ticks_in_current_bar, last_market_status_logged,
                   exit_reason, now, start_minute, ws_open, orders>>

\* Lines 472-476: the retries are used up.
WfeGiveUp ==
    /\ pc = "dispatch"
    /\ state = "WAITING_FOR_ENTRY"
    /\ WfeFallsThrough
    /\ entry_order_check_retries >= MAX_ENTRY_RETRIES
    /\ state' = "IDLE"
    /\ polls' = polls + 1
    /\ pc' = "loop"
    /\ sent' = <<Notice("error", "emergency_order_not_found")>>
    /\ calls' = <<QueryCall>>
    /\ UNCHANGED <<config, bufVars, backtestVars, is_bot_running, current_price, entry_order_id,
                   stop_loss_order_id, entry_price, entry_time,
                   stop_loss_price, take_profit_price,
                   entry_order_check_retries, dipVars, barVars,
                   ticks_in_current_bar, last_market_status_logged,
                   exit_reason, now, start_minute, ws_open, orders>>

\* ----------------------------------------- _handle_state_position_open
\* Line 482.
TakeProfitReached == current_price >= take_profit_price

\* Lines 482-494: the take-profit price is reached; ok is the broker's answer
\* to cancel_order for the stop-loss order.
PoCancel(ok) ==
    /\ pc = "dispatch"
    /\ state = "POSITION_OPEN"
    /\ TakeProfitReached
    /\ calls' = <<Call("cancel_order", stop_loss_order_id)>>
    /\ IF ok
       THEN /\ state' = "WAITING_FOR_CANCEL"
            /\ orders' = [orders EXCEPT
                              ![stop_loss_order_id].cancel_requested = TRUE]
            /\ sent' = <<>>
            /\ UNCHANGED is_bot_running
       ELSE /\ sent' = <<Notice("error", "emergency_stop_cancel_failed")>>
            /\ is_bot_running' = FALSE
            /\ UNCHANGED <<state, orders>>
    /\ pc' = "loop"
    /\ UNCHANGED <<config, bufVars, backtestVars, current_price, entry_order_id,
                   stop_loss_order_id, entry_price, entry_time,
                   stop_loss_price, take_profit_price,
                   entry_order_check_retries, dipVars, barVars,
                   ticks_in_current_bar, last_market_status_logged,
                   exit_reason, now, start_minute, ws_open, polls>>

PoCancelAccepted == PoCancel(TRUE)
PoCancelRejected == PoCancel(FALSE)

\* Lines 502-512: the list shows the stop-loss order executed.
StopShownExecuted ==
    /\ stop_loss_order_id \in ListedIds
    /\ ShowsExecuted(orders[stop_loss_order_id])

\* PoStopExecuted going back to IDLE directly, without the CLOSING state.
PoStopExecuted_SkipsClosing ==
    /\ pc = "dispatch"
    /\ state = "POSITION_OPEN"
    /\ ~TakeProfitReached
    /\ StopShownExecuted
    /\ state' = "IDLE"
    /\ pc' = "loop"
    /\ sent' = <<Notice("exit", "exit_stop_loss")>>
    /\ calls' = <<QueryCall>>
    /\ UNCHANGED <<config, bufVars, backtestVars, is_bot_running, current_price, entry_order_id,
                   stop_loss_order_id, entry_price, entry_time,
                   stop_loss_price, take_profit_price,
                   entry_order_check_retries, dipVars, barVars,
                   ticks_in_current_bar, last_market_status_logged,
                   exit_reason, now, start_minute, ws_open, orders,
                   polls>>

\* Lines 497-518 with a successful query: the stop-loss order is executed.
PoStopExecuted ==
    /\ pc = "dispatch"
    /\ state = "POSITION_OPEN"
    /\ ~TakeProfitReached
    /\ StopShownExecuted
    /\ state' = "CLOSING"
    /\ pc' = "loop"
    /\ sent' = <<Notice("exit", "exit_stop_loss")>>
    /\ calls' = <<QueryCall>>
    /\ UNCHANGED <<config, bufVars, backtestVars, is_bot_running, current_price, entry_order_id,
                   stop_loss_order_id, entry_price, entry_time,
                   stop_loss_price, take_profit_price,
                   entry_order_check_retries, dipVars, barVars,
                   ticks_in_current_bar, last_market_status_logged,
                   exit_reason, now, start_minute, ws_open, orders,
                   polls>>

\* Lines 497-518 otherwise: the query fails (query_ok false), or the list
\* does not show the stop-loss order executed.
PoNoChange(query_ok) ==
    /\ pc = "dispatch"
    /\ state = "POSITION_OPEN"
    /\ ~TakeProfitReached
    /\ query_ok => ~StopShownExecuted
    /\ pc' = "loop"
    /\ sent' = <<>>
    /\ calls' = <<IF query_ok THEN QueryCall ELSE QueryFailedCall>>
    /\ UNCHANGED <<config, bufVars, backtestVars, botVars, current_price, dipVars, barVars,
                   ticks_in_current_bar, last_market_status_logged,
                   exit_reason, now, start_minute, ws_open, orders,
                   polls>>

\* -------------------------------------- _handle_state_waiting_for_cancel
\* Lines 529-533.
StopFound == stop_loss_order_id \in ListedIds

\* Lines 522-538: the query fails (query_ok false) or the stop-loss order is
\* not in the list.
WfcQueryFailedOrMissing(query_ok) ==
    /\ pc = "dispatch"
    /\ state = "WAITING_FOR_CANCEL"
    /\ query_ok => ~StopFound
    /\ is_bot_running' = FALSE
    /\ pc' = "loop"
    /\ sent' = <<>>
    /\ calls' = <<IF query_ok THEN QueryCall ELSE QueryFailedCall>>
    /\ UNCHANGED <<config, bufVars, backtestVars, state, current_price, entry_order_id,
                   stop_loss_order_id, entry_price, entry_time,
                   stop_loss_price, take_profit_price,
                   entry_order_check_retries, dipVars, barVars,
                   ticks_in_current_bar, last_market_status_logged,
                   exit_reason, now, start_minute, ws_open, orders,
                   polls>>

\* Lines 541-557: state code 5 is taken as the confirmed cancellation; ok is
\* the broker's answer to send_limit_sell_order.
WfcSell(ok) ==
    /\ pc = "dispatch"
    /\ state = "WAITING_FOR_CANCEL"
    /\ StopFound
    /\ orders[stop_loss_order_id].State = 5
    /\ ok => CanAccept
    /\ stop_loss_order_id' = None
    /\ calls' = <<QueryCall, Call("send_limit_sell_order",
                                  <<config.qty, take_profit_price>>)>>
    /\ IF ok
       THEN /\ orders' = Append(orders,
                                Order("limit", config.qty, take_profit_price))
            /\ sent' = <<Notice("exit", "exit_take_profit")>>
            /\ state' = "CLOSING"
            /\ UNCHANGED is_bot_running
       ELSE /\ sent' = <<Notice("error", "emergency_take_profit_failed")>>
            /\ is_bot_running' = FALSE
            /\ UNCHANGED <<orders, state>>
    /\ pc' = "loop"
    /\ UNCHANGED <<config, bufVars, backtestVars, current_price, entry_order_id, entry_price,
                   entry_time, stop_loss_price, take_profit_price,
                   entry_order_check_retries, dipVars, barVars,
                   ticks_in_current_bar, last_market_status_logged,
                   exit_reason, now, start_minute, ws_open, polls>>

WfcSellPlaced == WfcSell(TRUE)
WfcSellRejected == WfcSell(FALSE)

\* Lines 559-570: state code 6, the stop-loss order was executed first.
WfcStopExecuted ==
    /\ pc = "dispatch"
    /\ state = "WAITING_FOR_CANCEL"
    /\ StopFound
    /\ orders[stop_loss_order_id].State = 6
    /\ state' = "CLOSING"
    /\ pc' = "loop"
    /\ sent' = <<Notice("exit", "exit_stop_loss")>>
    /\ calls' = <<QueryCall>>
    /\ UNCHANGED <<config, bufVars, backtestVars, is_bot_running, current_price, entry_order_id,
                   stop_loss_order_id, entry_price, entry_time,
                   stop_loss_price, take_profit_price,
                   entry_order_check_retries, dipVars, barVars,
                   ticks_in_current_bar, last_market_status_logged,
                   exit_reason, now, start_minute, ws_open, orders,
                   polls>>

\* Lines 571-572: any other state code, keep waiting.
WfcWait ==
    /\ pc = "dispatch"
    /\ state = "WAITING_FOR_CANCEL"
    /\ StopFound
    /\ orders[stop_loss_order_id].State \notin {5, 6}
    /\ pc' = "loop"
    /\ sent' = <<>>
    /\ calls' = <<QueryCall>>
    /\ UNCHANGED <<config, bufVars, backtestVars, botVars, current_price, dipVars, barVars,
                   ticks_in_current_bar, last_market_status_logged,
                   exit_reason, now, start_minute, ws_open, orders,
                   polls>>

\* ------------------------------------------------ _handle_state_closing
HandleClosing ==
    /\ pc = "dispatch"
    /\ state = "CLOSING"
    /\ state' = "IDLE"
    /\ entry_order_id' = None
    /\ stop_loss_order_id' = None
    /\ entry_price' = 0
    /\ entry_time' = None
    /\ SetDip(EmptyDip)
    /\ pc' = "loop"
    /\ sent' = <<>>
    /\ calls' = <<>>
    /\ UNCHANGED <<config, bufVars, backtestVars, is_bot_running, current_price, stop_loss_price,
                   take_profit_price, entry_order_check_retries, barVars,
                   ticks_in_current_bar, last_market_status_logged,
                   exit_reason, now, start_minute, ws_open, orders,
                   polls>>

\* ------------------------------------------------------ run(): shutdown
\* Lines 361-363: the operator interrupts the process.
KeyboardInterrupt ==
    /\ pc \in {"wait_price", "loop"}
    /\ exit_reason' = "Manual interruption (KeyboardInterrupt)."
    /\ pc' = "finally"
    /\ UNCHANGED <<config, bufVars, backtestVars, botVars, current_price, dipVars, barVars,
                   ticks_in_current_bar, last_market_status_logged, now,
                   start_minute, ws_open, orders, sent, calls, polls>>

\* Lines 370-372 and 373-375: the clean-up cancellations that run() attempts.
CancelsEntryOnExit == entry_order_id # None /\ state = "WAITING_FOR_ENTRY"
CancelsStopOnExit == stop_loss_order_id # None

\* Finally without the state test of line 370: the entry order is cancelled
\* whenever its id is recorded.
Finally_CancelsEntryInAnyState ==
    /\ pc = "finally"
    /\ calls' = (IF entry_order_id # None
                 THEN <<Call("cancel_order", entry_order_id)>> ELSE <<>>)
                \o (IF CancelsStopOnExit
                    THEN <<Call("cancel_order", stop_loss_order_id)>>
                    ELSE <<>>)
                \o <<Call("close_websocket", None)>>
    /\ ws_open' = FALSE
    /\ sent' = IF config.enable_start_stop_notifications
               THEN <<Notice("stop", exit_reason)>> ELSE <<>>
    /\ pc' = "done"
    /\ UNCHANGED <<config, bufVars, backtestVars, botVars, current_price, dipVars, barVars,
                   ticks_in_current_bar, last_market_status_logged,
                   exit_reason, now, start_minute, orders, polls>>

\* Lines 367-379: the finally block; the answers of the broker to the two
\* cancellations are ignored.
Finally ==
    /\ pc = "finally"
    /\ calls' = (IF CancelsEntryOnExit
                 THEN <<Call("cancel_order", entry_order_id)>> ELSE <<>>)
                \o (IF CancelsStopOnExit
                    THEN <<Call("cancel_order", stop_loss_order_id)>>
                    ELSE <<>>)
                \o <<Call("close_websocket", None)>>
    /\ ws_open' = FALSE
    /\ sent' = IF config.enable_start_stop_notifications
               THEN <<Notice("stop", exit_reason)>> ELSE <<>>
    /\ pc' = "done"
    /\ UNCHANGED <<config, bufVars, backtestVars, botVars, current_price, dipVars, barVars,
                   ticks_in_current_bar, last_market_status_logged,
                   exit_reason, now, start_minute, orders, polls>>

\* ------------------------------------------------------- specification
Environment ==
    \/ \E p \in TickPrices : OnMessage(p)
    \/ OnClose
    \/ ClockTick
    \/ \E i \in 1..MaxOrders : BrokerList(i)
    \/ \E i \in 1..MaxOrders, s \in BrokerStates, p \in {0, FillPrice} :
           BrokerUpdate(i, s, p)

Control ==
    \/ RunDisabled
    \/ \E token_ok \in BOOLEAN, history \in Histories(now) :
           RunStart(token_ok, history)
    \/ WaitPrice
    \/ LoopExit
    \/ LoopDeadline
    \/ LoopMarketClosed
    \/ AfterLoop
    \/ LoopNoNewBar
    \/ LoopNewBar
    \/ LoopEntryAccepted
    \/ LoopEntryRejected
    \/ DispatchIdle
    \/ WfeQueryFailed
    \/ WfeFilledStopPlaced
    \/ WfeFilledStopRejected
    \/ WfeFailedOrCancelled
    \/ WfeRetry
    \/ WfeGiveUp
    \/ PoCancelAccepted
    \/ PoCancelRejected
    \/ PoStopExecuted
    \/ \E query_ok \in BOOLEAN : PoNoChange(query_ok)
    \/ \E query_ok \in BOOLEAN : WfcQueryFailedOrMissing(query_ok)
    \/ WfcSellPlaced
    \/ WfcSellRejected
    \/ WfcStopExecuted
    \/ WfcWait
    \/ HandleClosing
    \/ Finally

Next == Environment \/ Control

Spec == Init /\ [][Next]_vars

\* The same program when the operator may interrupt it.
SpecInterrupt == Init /\ [][Next \/ KeyboardInterrupt]_vars

\* ------------------------------------------- the live loop, order unlisted
\* The live bot started at 9:05 with the dip history in the store, over one
\* minute more than Spec, while the broker's list never shows the entry
\* order: the rollovers, the entry and the polls of WAITING_FOR_ENTRY.
InitRescan == Constructed(Config(TRUE, 1, 1), MorningStart)

NextRescan ==
    \/ \E p \in TickPrices : OnMessage(p)
    \/ ClockTickWithin(MaxMinutes + 1)
    \/ RunStart(TRUE, DipHistory(now))
    \/ WaitPrice
    \/ LoopExit
    \/ LoopNoNewBar
    \/ LoopNewBar
    \/ LoopEntryAccepted
    \/ LoopEntryRejected
    \/ DispatchIdle
    \/ WfeQueryFailed
    \/ WfeRetry
    \/ WfeGiveUp
    \/ Finally

SpecRescan == InitRescan /\ [][NextRescan]_vars

\* ----------------------------------------------- the detector on its own
\* One scan of _update_setup_signal (lines 176-211) from the empty DipState,
\* an iteration per step: df_1min holds the bars scanned so far and the
\* DipState fields hold the detector's state after the latest iteration.
\* Bars are one minute apart from 9:01 on, so that every bar is a setup bar.
MaxBars == 8

FirstBarMinute == MARKET_OPEN_AM + 1

\* The bars the scan is fed at minute ts: flat bars at 100, 99 and 98, and a
\* bar closing at 98 with high 99 and low 97.
DetectorBars(ts) ==
    {FlatBar(ts, 100), FlatBar(ts, 99), FlatBar(ts, 98), Bar(ts, 98, 99, 97, 98)}

\* The closes of the end-to-end scenario, index 0 first.
ScenarioCloses == <<100, 99, 98, 97, 96, 95, 99, 101>>

\* Bar number k (from 1) of the scenario: open, low and close at the
\* scenario's close, the high at it or one above.
ScenarioBars(k, ts) ==
    {Bar(ts, ScenarioCloses[k], h, ScenarioCloses[k], ScenarioCloses[k]) :
        h \in {ScenarioCloses[k], ScenarioCloses[k] + 1}}

\* Iteration j = Len(df_1min) of the scan loop on the bar that follows the
\* bars scanned so far.
Scan(mode, limit, bar) ==
    /\ pc = mode
    /\ Len(df_1min) < limit
    /\ df_1min' = Append(df_1min, bar)
    /\ SetDip(DetectorStep(CurrentDip,
                           SetupBars(Append(df_1min, bar), config),
                           Len(SetupBars(Append(df_1min, bar), config)) - 1))
    /\ UNCHANGED <<config, bufVars, backtestVars, botVars, current_price, ticks_in_current_bar,
                   last_bar_timestamp, last_market_status_logged,
                   exit_reason, pc, now, start_minute, ws_open, orders, sent,
                   calls, polls>>

ScanBar(bar) == Scan("scan", MaxBars, bar)
ScenarioBar(bar) == Scan("scenario", Len(ScenarioCloses), bar)

InitDetector ==
    BotConstructed(Config(TRUE, 1, 1), FirstBarMinute) /\ pc = "scan"
NextDetector ==
    \E bar \in DetectorBars(FirstBarMinute + Len(df_1min)) : ScanBar(bar)
SpecDetector == InitDetector /\ [][NextDetector]_vars

\* --------------------------------------- the detector called bar by bar
\* The calls of _update_setup_signal the loop makes (line 325), one per
\* arriving 1-minute bar, each on the whole series so far and on the
\* DipState the call before left.  Bars as for the scan above.
FeedBar(bar) ==
    /\ pc = "feed"
    /\ Len(df_1min) < MaxBars
    /\ df_1min' = Append(df_1min, bar)
    /\ SetDip(UpdateSetupSignal(CurrentDip, Append(df_1min, bar), config))
    /\ UNCHANGED <<config, bufVars, backtestVars, botVars, current_price, ticks_in_current_bar,
                   last_bar_timestamp, last_market_status_logged,
                   exit_reason, pc, now, start_minute, ws_open, orders, sent,
                   calls, polls>>

InitFeed ==
    BotConstructed(Config(TRUE, 1, 1), FirstBarMinute) /\ pc = "feed"
NextFeed ==
    \E bar \in DetectorBars(FirstBarMinute + Len(df_1min)) : FeedBar(bar)
SpecFeed == InitFeed /\ [][NextFeed]_vars

InitScenario ==
    BotConstructed(Config(TRUE, 1, 1), FirstBarMinute) /\ pc = "scenario"
NextScenario ==
    /\ Len(df_1min) < Len(ScenarioCloses)
    /\ \E bar \in ScenarioBars(Len(df_1min) + 1,
                                FirstBarMinute + Len(df_1min)) :
           ScenarioBar(bar)
SpecScenario == InitScenario /\ [][NextScenario]_vars

\* ------------------------------------------------ the fill of the entry
\* The live bot from its start to the fill of its entry order, for several
\* configured percentages and execution prices.  For these prices the
\* double-precision products of lines 439-440 are the exact ones; 125 and
\* 150 make them fall half-way between two integers.
FillPrices == {100, 125, 150}
Percents == {1, 2}

FillConfig(sl, tp) ==
    [Config(TRUE, 1, 1) EXCEPT !.stop_loss_percent = sl,
                               !.take_profit_percent = tp]

InitFill ==
    \E sl \in Percents, tp \in Percents :
        Constructed(FillConfig(sl, tp), MorningStart)

NextFill ==
    \/ \E p \in TickPrices : OnMessage(p)
    \/ ClockTick
    \/ RunStart(TRUE, DipHistory(now))
    \/ WaitPrice
    \/ LoopNoNewBar
    \/ LoopNewBar
    \/ LoopEntryAccepted
    \/ DispatchIdle
    \/ BrokerList(1)
    \/ \E s \in BrokerStates, p \in {0} \cup FillPrices : BrokerUpdate(1, s, p)
    \/ WfeRetry
    \/ WfeFailedOrCancelled
    \/ WfeFilledStopPlaced
    \/ WfeFilledStopRejected

SpecFill == InitFill /\ [][NextFill]_vars

\* ------------------------------------- the tick buffer and its two threads
\* on_message runs on the feed's thread and _aggregate_ticks on the control
\* thread; here each statement of the two is a step of its own, so that
\* every interleaving the lock allows occurs.  The bot is started at 9:05
\* without history; the feed delivers MaxTicks + 2 messages and the clock
\* runs MaxMinutes + 1 minutes.
BufferTicks == MaxTicks + 2
BufferMinutes == MaxMinutes + 1

\* Lines 215-226: a message with the price p arrives; current_price is set.
FeedReceive(p) ==
    /\ ws_open
    /\ feed_pc = "idle"
    /\ Len(received) < BufferTicks
    /\ current_price' = p
    /\ feed_pc' = "acquire"
    /\ UNCHANGED <<config, backtestVars, botVars, dipVars, barVars, ticks_in_current_bar,
                   last_market_status_logged, exit_reason, pc, now,
                   start_minute, ws_open, orders, sent, calls, polls,
                   ticks_lock, ticks_to_process, received, bar_ticks>>

\* Line 227: on_message takes the lock, waiting while it is held.
FeedAcquire ==
    /\ feed_pc = "acquire"
    /\ ticks_lock = "free"
    /\ ticks_lock' = "feed"
    /\ feed_pc' = "append"
    /\ UNCHANGED <<config, backtestVars, botVars, current_price, dipVars, barVars,
                   ticks_in_current_bar, last_market_status_logged,
                   exit_reason, pc, now, start_minute, ws_open, orders, sent,
                   calls, polls, ticks_to_process, received, bar_ticks>>

\* Line 228: the tick is appended to the buffer.
FeedAppend ==
    /\ feed_pc = "append"
    /\ LET tick == [Timestamp |-> now, Price |-> current_price]
       IN  /\ ticks_in_current_bar' = Append(ticks_in_current_bar, tick)
           /\ received' = Append(received, tick)
    /\ feed_pc' = "release"
    /\ UNCHANGED <<config, backtestVars, botVars, current_price, dipVars, barVars,
                   last_market_status_logged, exit_reason, pc, now,
                   start_minute, ws_open, orders, sent, calls, polls,
                   ticks_lock, ticks_to_process, bar_ticks>>

\* The end of the with block of line 227, and the rest of on_message.
FeedRelease ==
    /\ feed_pc = "release"
    /\ ticks_lock' = "free"
    /\ feed_pc' = "idle"
    /\ UNCHANGED <<config, backtestVars, botVars, current_price, dipVars, barVars,
                   ticks_in_current_bar, last_market_status_logged,
                   exit_reason, pc, now, start_minute, ws_open, orders, sent,
                   calls, polls, ticks_to_process, received, bar_ticks>>

\* A minute passes while the control thread sleeps at the head of the loop.
BufferClockTick ==
    /\ pc = "loop"
    /\ now < start_minute + BufferMinutes
    /\ now' = now + 1
    /\ UNCHANGED <<config, bufVars, backtestVars, botVars, current_price, dipVars, barVars,
                   ticks_in_current_bar, last_market_status_logged,
                   exit_reason, pc, start_minute, ws_open, orders, sent,
                   calls, polls>>

\* Lines 286-322: the loop finds a new minute and calls _aggregate_ticks.
BufferRollover ==
    /\ LoopOpen
    /\ NewMinute
    /\ last_market_status_logged' = "open"
    /\ pc' = "aggregate"
    /\ sent' = <<>>
    /\ calls' = <<>>
    /\ UNCHANGED <<config, bufVars, backtestVars, botVars, current_price, dipVars, barVars,
                   ticks_in_current_bar, exit_reason, now, start_minute,
                   ws_open, orders, polls>>

\* AggAcquire without the lock: _aggregate_ticks goes on whoever holds it.
AggAcquire_NoLock ==
    /\ pc = "aggregate"
    /\ pc' = "agg_copy"
    /\ UNCHANGED <<config, backtestVars, botVars, current_price, dipVars, barVars,
                   ticks_in_current_bar, last_market_status_logged,
                   exit_reason, now, start_minute, ws_open, orders, sent,
                   calls, polls, ticks_lock, feed_pc, ticks_to_process,
                   received, bar_ticks>>

\* Line 131: _aggregate_ticks takes the lock, waiting while it is held.
AggAcquire ==
    /\ pc = "aggregate"
    /\ ticks_lock = "free"
    /\ ticks_lock' = "control"
    /\ pc' = "agg_copy"
    /\ UNCHANGED <<config, backtestVars, botVars, current_price, dipVars, barVars,
                   ticks_in_current_bar, last_market_status_logged,
                   exit_reason, now, start_minute, ws_open, orders, sent,
                   calls, polls, feed_pc, ticks_to_process, received,
                   bar_ticks>>

\* Line 132: ticks_to_process = self.ticks_in_current_bar.
AggCopy ==
    /\ pc = "agg_copy"
    /\ ticks_to_process' = ticks_in_current_bar
    /\ pc' = "agg_clear"
    /\ UNCHANGED <<config, backtestVars, botVars, current_price, dipVars, barVars,
                   ticks_in_current_bar, last_market_status_logged,
                   exit_reason, now, start_minute, ws_open, orders, sent,
                   calls, polls, ticks_lock, feed_pc, received, bar_ticks>>

\* Line 133: self.ticks_in_current_bar = [].
AggClear ==
    /\ pc = "agg_clear"
    /\ ticks_in_current_bar' = <<>>
    /\ pc' = "agg_release"
    /\ UNCHANGED <<config, backtestVars, botVars, current_price, dipVars, barVars,
                   last_market_status_logged, exit_reason, now, start_minute,
                   ws_open, orders, sent, calls, polls, ticks_lock, feed_pc,
                   ticks_to_process, received, bar_ticks>>

\* The end of the with block of line 131.
AggRelease ==
    /\ pc = "agg_release"
    /\ ticks_lock' = "free"
    /\ pc' = "agg_build"
    /\ UNCHANGED <<config, backtestVars, botVars, current_price, dipVars, barVars,
                   ticks_in_current_bar, last_market_status_logged,
                   exit_reason, now, start_minute, ws_open, orders, sent,
                   calls, polls, feed_pc, ticks_to_process, received,
                   bar_ticks>>

\* Lines 135-137 and 348: nothing was swapped out, no bar.
AggEmpty ==
    /\ pc = "agg_build"
    /\ ticks_to_process = <<>>
    /\ last_bar_timestamp' = now
    /\ pc' = "dispatch"
    /\ UNCHANGED <<config, bufVars, backtestVars, botVars, current_price, dipVars, df_1min,
                   ticks_in_current_bar, last_market_status_logged,
                   exit_reason, now, start_minute, ws_open, orders, sent,
                   calls, polls>>

\* Lines 139-151: the bar is built from the swapped-out ticks and appended.
AggBuild ==
    /\ pc = "agg_build"
    /\ ticks_to_process # <<>>
    /\ df_1min' = Append(df_1min, NewBar(ticks_to_process, last_bar_timestamp))
    /\ bar_ticks' = Append(bar_ticks, ticks_to_process)
    /\ pc' = "agg_save"
    /\ UNCHANGED <<config, backtestVars, botVars, current_price, dipVars,
                   last_bar_timestamp, ticks_in_current_bar,
                   last_market_status_logged, exit_reason, now, start_minute,
                   ws_open, orders, sent, calls, polls, ticks_lock, feed_pc,
                   ticks_to_process, received>>

\* Lines 152 and 348: the bar is written to the store; the loop body ends.
AggSave ==
    /\ pc = "agg_save"
    /\ calls' = <<Call("_save_bar_to_db", df_1min[Len(df_1min)])>>
    /\ last_bar_timestamp' = now
    /\ pc' = "dispatch"
    /\ UNCHANGED <<config, bufVars, backtestVars, botVars, current_price, dipVars, df_1min,
                   ticks_in_current_bar, last_market_status_logged,
                   exit_reason, now, start_minute, ws_open, orders, sent,
                   polls>>

\* Lines 320 and 350-359: the minute has not changed, the loop body is
\* skipped.
BufferNoRollover == ~NewMinute /\ LoopNoNewBar

InitBuffer == Constructed(Config(TRUE, 1, 1), MorningStart)

NextBuffer ==
    \/ \E p \in TickPrices : FeedReceive(p)
    \/ FeedAcquire
    \/ FeedAppend
    \/ FeedRelease
    \/ BufferClockTick
    \/ RunStart(TRUE, <<>>)
    \/ WaitPrice
    \/ BufferRollover
    \/ AggAcquire
    \/ AggCopy
    \/ AggClear
    \/ AggRelease
    \/ AggEmpty
    \/ AggBuild
    \/ AggSave
    \/ BufferNoRollover
    \/ DispatchIdle

SpecBuffer == InitBuffer /\ [][NextBuffer]_vars

\* --------------------------------------------- bars of several ticks
\* The live loop started at 9:05, with or without the dip history, while
\* the feed leaves up to BufferTicks ticks in the buffer per minute and the
\* clock runs BufferMinutes minutes: bars of several ticks, minutes without
\* ticks, and rollovers in IDLE and in WAITING_FOR_ENTRY.
InitBars == Constructed(Config(TRUE, 1, 1), MorningStart)

NextBars ==
    \/ \E p \in TickPrices : OnMessageWithin(BufferTicks, p)
    \/ ClockTickWithin(BufferMinutes)
    \/ \E history \in Histories(now) : RunStart(TRUE, history)
    \/ WaitPrice
    \/ LoopNoNewBar
    \/ LoopNewBar
    \/ LoopEntryAccepted
    \/ LoopEntryRejected
    \/ LoopExit
    \/ DispatchIdle
    \/ WfeRetry

SpecBars == InitBars /\ [][NextBars]_vars

\* ------------------------------------------------ sessions without a dip
\* The live loop started at 9:05 on a store that holds rising closes, closes
\* that rise and fall by turns, or the dip history: the first new bar, at
\* 100 or 102, continues the rise, completes a fall of three closes (101,
\* then 100), or closes above the reversal point.
RisingHistory(t) ==
    <<FlatBar(t - 3, 98), FlatBar(t - 2, 99), FlatBar(t - 1, 100)>>
ZigzagHistory(t) ==
    <<FlatBar(t - 3, 100), FlatBar(t - 2, 102), FlatBar(t - 1, 101)>>
SessionHistories(t) == {RisingHistory(t), ZigzagHistory(t), DipHistory(t)}

InitNoDip == Constructed(Config(TRUE, 1, 1), MorningStart)

NextNoDip ==
    \/ \E p \in TickPrices : OnMessage(p)
    \/ ClockTick
    \/ \E history \in SessionHistories(now) : RunStartWith(TRUE, history)
    \/ WaitPrice
    \/ LoopNoNewBar
    \/ LoopNewBar
    \/ LoopEntryAccepted
    \/ LoopEntryRejected
    \/ LoopExit
    \/ DispatchIdle
    \/ WfeRetry

SpecNoDip == InitNoDip /\ [][NextNoDip]_vars

\* ------------------------------------------------ the end of the trading day
\* The live bot started at 14:58, two minutes before the afternoon window
\* closes, or at 15:29, with or without the dip history, and the clock runs
\* on to the end-of-day deadline: an entry in the last open minute, polls of
\* an order the list never shows, the closed market with the bot idle and
\* not idle, and the deadline.
AfternoonStart == MARKET_CLOSE_PM - 2
DeadlineStarts == {AfternoonStart, END_OF_DAY - 1}

\* Wall-clock time passes to minute t while the control thread sleeps: to
\* the next minute, or further over minutes in which the market is closed
\* (the sleep of line 317), up to the deadline.
ClockPass(t) ==
    /\ Sleeping
    /\ pc = "loop" /\ IsMarketOpen(now) => now <= last_bar_timestamp
    /\ t > now
    /\ t <= END_OF_DAY
    /\ \A m \in (now + 1)..(t - 1) : ~IsMarketOpen(m)
    /\ now' = t
    /\ UNCHANGED <<config, bufVars, backtestVars, botVars, current_price,
                   dipVars, barVars, ticks_in_current_bar,
                   last_market_status_logged, exit_reason, pc, start_minute,
                   ws_open, orders, sent, calls, polls>>

InitDeadline ==
    \E t \in DeadlineStarts : Constructed(Config(TRUE, 1, 1), t)

\* The steps of the control thread that close a bar.
RolloverDeadline ==
    \/ LoopNewBar
    \/ LoopEntryAccepted

\* The other steps of the control thread.
ControlDeadline ==
    \/ \E history \in Histories(now) : RunStart(TRUE, history)
    \/ WaitPrice
    \/ LoopDeadline
    \/ LoopMarketClosed
    \/ AfterLoop
    \/ LoopNoNewBar
    \/ DispatchIdle
    \/ WfeRetry
    \/ WfeGiveUp
    \/ Finally

NextDeadline ==
    \/ \E p \in TickPrices : OnMessage(p)
    \/ \E t \in {AfternoonStart + 1, MARKET_CLOSE_PM, END_OF_DAY} :
           ClockPass(t)
    \/ RolloverDeadline
    \/ ControlDeadline

\* The control thread keeps running: each of its sleeps ends (lines 279,
\* 317, 359) and the next statement runs.  Fairness is stated for the steps
\* that close no bar, the only ones enabled once the market is closed.
\* Nothing obliges the feed to deliver or the clock to advance.
SpecDeadline ==
    InitDeadline /\ [][NextDeadline]_vars /\ WF_vars(ControlDeadline)

\* --------------------------------------------- setup bars of two minutes
\* The live loop with 2-minute setup bars, started at 9:05 on five 1-minute
\* rows from 9:00 that close at 102, 102, 102, 101, 101, over BufferMinutes
\* minutes: the row of 9:05 opens the bin labelled 9:06, which the row of
\* 9:06 completes a minute later.
TwoMinuteHistory(t) ==
    <<FlatBar(t - 5, 102), FlatBar(t - 4, 102), FlatBar(t - 3, 102),
      FlatBar(t - 2, 101), FlatBar(t - 1, 101)>>

InitTwoMinute == Constructed(Config(TRUE, 2, 1), MorningStart)

NextTwoMinute ==
    \/ \E p \in TickPrices : OnMessage(p)
    \/ ClockTickWithin(BufferMinutes)
    \/ \E history \in {<<>>, TwoMinuteHistory(now)} :
           RunStartWith(TRUE, history)
    \/ WaitPrice
    \/ LoopNoNewBar
    \/ LoopNewBar
    \/ DispatchIdle

SpecTwoMinute == InitTwoMinute /\ [][NextTwoMinute]_vars

\* ------------------------------------------- the stop-loss order fills
\* The live bot through one trade cycle whose protective stop order the
\* broker executes, at a configuration of 1 % either way.
InitStopFill == Constructed(Config(TRUE, 1, 1), MorningStart)

\* The steps of the control thread that close a bar.
RolloverStopFill ==
    \/ LoopNewBar
    \/ LoopEntryAccepted

\* The other steps of the control thread.
ControlStopFill ==
    \/ RunStart(TRUE, DipHistory(now))
    \/ WaitPrice
    \/ LoopExit
    \/ LoopNoNewBar
    \/ DispatchIdle
    \/ WfeRetry
    \/ WfeFilledStopPlaced
    \/ PoCancelAccepted
    \/ PoCancelRejected
    \/ PoStopExecuted
    \/ PoNoChange(TRUE)
    \/ WfcSellPlaced
    \/ WfcStopExecuted
    \/ WfcWait
    \/ HandleClosing
    \/ Finally

NextStopFill ==
    \/ \E p \in TickPrices : OnMessage(p)
    \/ ClockTick
    \/ \E i \in 1..2 : BrokerList(i)
    \/ \E i \in 1..2, s \in {5, 6} : BrokerUpdate(i, s, FillPrice)
    \/ RolloverStopFill
    \/ ControlStopFill

\* The control thread keeps running: each sleep of the loop ends (line 359)
\* and the handler of the current state runs.  Nothing obliges the feed to
\* deliver, the clock to advance or the broker to act.
SpecStopFill ==
    InitStopFill /\ [][NextStopFill]_vars /\ WF_vars(ControlStopFill)

\* --------------------------------------------- the entry order is given up
\* The live bot over one minute more than MaxMinutes, with a broker that
\* lists the entry order or not and leaves it unprocessed: the wait for the
\* entry runs out of retries and the loop goes on.
NextGiveUp ==
    \/ \E p \in TickPrices : OnMessage(p)
    \/ ClockTickWithin(MaxMinutes + 1)
    \/ RunStart(TRUE, DipHistory(now))
    \/ WaitPrice
    \/ LoopNoNewBar
    \/ LoopNewBar
    \/ LoopEntryAccepted
    \/ DispatchIdle
    \/ \E i \in 1..MaxOrders : BrokerList(i)
    \/ WfeRetry
    \/ WfeGiveUp

SpecGiveUp == InitRescan /\ [][NextGiveUp]_vars

\* ------------------------------------------------ the fill at a low price
\* The live bot from its start to the fill of its entry order and the first
\* poll of the open position, for execution prices of 10, 40 and 100 yen (a
\* hundredth of 10 and of 40 is less than half a yen).
LowFillPrices == {10, 40, 100}

NextLowFill ==
    \/ \E p \in TickPrices : OnMessage(p)
    \/ ClockTick
    \/ RunStart(TRUE, DipHistory(now))
    \/ WaitPrice
    \/ LoopNoNewBar
    \/ LoopNewBar
    \/ LoopEntryAccepted
    \/ DispatchIdle
    \/ BrokerList(1)
    \/ \E s \in BrokerStates, p \in {0} \cup LowFillPrices : BrokerUpdate(1, s, p)
    \/ WfeRetry
    \/ WfeFailedOrCancelled
    \/ WfeFilledStopPlaced
    \/ WfeFilledStopRejected
    \/ PoCancelAccepted
    \/ PoCancelRejected
    \/ PoNoChange(TRUE)

SpecLowFill == InitFill /\ [][NextLowFill]_vars

\* ================================= run_backtest (src/Honban/backtest_logic.py)
\* The table of 1-minute rows is df_1min, sorted by time (line 50); a row's ts
\* is minutes since the midnight of day 0, so its day is ts \div 1440 and its
\* time of day ts % 1440.  Prices are integer yen.  The levels
\* stop_loss_price and take_profit_price and the profits are products with
\* percentages: the model keeps them in hundredths of a yen, which makes them
\* integers (entry_price * (1 - pct / 100) is entry_price * (100 - pct)
\* hundredths).  No day of the model is one of the excluded_dates of line 56.
SEARCH_START == 541
SEARCH_END == 690
HUNDREDTHS == 100

TimeOf(ts) == ts % 1440
DayOf(ts) == ts \div 1440

\* Line 64: unique_days, in ascending order.
UniqueDays(df) ==
    LET days == {DayOf(df[n].ts) : n \in 1..Len(df)}
    IN  CHOOSE s \in [1..Cardinality(days) -> days] :
            \A a, b \in 1..Cardinality(days) : a < b => s[a] < s[b]

\* Line 73: the rows of day d.
DayRows(df, d) == SelectSeq(df, LAMBDA b : DayOf(b.ts) = d)

\* The parameters of run_backtest (line 32) and QTY of config.ini (line 44).
BacktestConfig(setup, trigger, sl, tp, tsl) ==
    [qty |-> 100, timeframe_mins |-> setup, trigger_timeframe_mins |-> trigger,
     stop_loss_percent |-> sl, take_profit_percent |-> tp,
     trailing_stop_percent |-> tsl]

\* Lines 67-68 and 73.
current_day == UniqueDays(df_1min)[day_i + 1]
next_day == UniqueDays(df_1min)[day_i + 2]
day_df_1min == DayRows(df_1min, current_day)
\* Lines 78-81 and 122-125: no bar is taken out of either.
BacktestSetupBars == Resample(day_df_1min, config.timeframe_mins)
BacktestTriggerBars == Resample(day_df_1min, config.trigger_timeframe_mins)

\* The variables only the live bot uses.
liveVars == <<state, is_bot_running, current_price, entry_order_id,
              stop_loss_order_id, entry_order_check_retries,
              ticks_in_current_bar, last_bar_timestamp, dip_start_timestamp,
              last_market_status_logged, exit_reason, now, start_minute,
              ws_open, orders, sent, calls, polls, bufVars>>

\* run_backtest is called with the parameters cfg on the table: lines 56-64.
BacktestStarted(cfg, table) ==
    /\ config = cfg
    /\ df_1min = table
    /\ pc = "bt_day"
    /\ day_i = 0
    /\ setup_j = 0
    /\ exit_k = 0
    /\ entry_found = FALSE
    /\ profit = 0
    /\ trades = <<>>
    /\ total_profit = 0
    /\ wins = 0
    /\ losses = 0
    /\ gross_profit = 0
    /\ gross_loss = 0
    /\ results = None
    /\ report = <<>>
    /\ entry_price = 0
    /\ entry_time = None
    /\ stop_loss_price = 0
    /\ take_profit_price = 0
    /\ dip_flag_on = FALSE
    /\ lowest_price_bar_index = -1
    /\ lowest_price_value = Inf
    /\ reversal_point = None
    /\ dip_start_timestamp = None
    /\ state = "IDLE"
    /\ is_bot_running = FALSE
    /\ current_price = 0
    /\ entry_order_id = None
    /\ stop_loss_order_id = None
    /\ entry_order_check_retries = 0
    /\ ticks_in_current_bar = <<>>
    /\ last_bar_timestamp = None
    /\ last_market_status_logged = "none"
    /\ exit_reason = "Unknown"
    /\ now = 0
    /\ start_minute = 0
    /\ ws_open = FALSE
    /\ orders = <<>>
    /\ sent = <<>>
    /\ calls = <<>>
    /\ polls = 0
    /\ ticks_lock = "free"
    /\ feed_pc = "idle"
    /\ ticks_to_process = <<>>
    /\ received = <<>>
    /\ bar_ticks = <<>>

\* Lines 66-92: the next day of the loop; its locals are set.
BacktestDayStart ==
    /\ pc = "bt_day"
    /\ day_i < Len(UniqueDays(df_1min)) - 1
    /\ entry_found' = FALSE
    /\ entry_price' = 0
    /\ entry_time' = None
    /\ dip_flag_on' = FALSE
    /\ lowest_price_bar_index' = -1
    /\ lowest_price_value' = Inf
    /\ reversal_point' = None
    /\ setup_j' = 0
    /\ pc' = "bt_scan"
    /\ UNCHANGED <<config, df_1min, liveVars, day_i, exit_k, profit,
                   stop_loss_price, take_profit_price, statVars, results,
                   report>>

\* Lines 101-105: the closes of the bars j-2, j-1, j of df_setup fall.
BacktestDipCondition(df_setup, j) ==
    /\ j >= 2
    /\ df_setup[j + 1].Close < df_setup[j].Close
    /\ df_setup[j].Close < df_setup[j - 1].Close

\* BacktestIterate_LowestBeforeDip follows the lowest low with the flag off
\* as well.
BacktestIterate_LowestBeforeDip(d, df_setup, j) ==
    IF TimeOf(df_setup[j + 1].ts) > SEARCH_START
    THEN LET d1 == IF BacktestDipCondition(df_setup, j) /\ ~d.dip_flag_on
                   THEN [d EXCEPT !.dip_flag_on = TRUE] ELSE d
             d2 == IF df_setup[j + 1].Low < d1.lowest_price_value
                   THEN [d1 EXCEPT !.lowest_price_value = df_setup[j + 1].Low,
                                   !.lowest_price_bar_index = j]
                   ELSE d1
         IN  IF /\ d2.dip_flag_on
                /\ d2.lowest_price_bar_index # -1
                /\ j >= d2.lowest_price_bar_index + 2
                /\ d2.lowest_price_bar_index - 2 >= 0
             THEN [d2 EXCEPT !.reversal_point =
                      df_setup[d2.lowest_price_bar_index - 2 + 1].High]
             ELSE d2
    ELSE d


\* Lines 100-118: the body of the setup loop for a bar j that is not after
\* search_end_time; d holds the four locals of the detector.
BacktestIterate(d, df_setup, j) ==
    IF TimeOf(df_setup[j + 1].ts) > SEARCH_START
    THEN LET d1 == IF BacktestDipCondition(df_setup, j) /\ ~d.dip_flag_on
                   THEN [d EXCEPT !.dip_flag_on = TRUE] ELSE d
             d2 == IF /\ d1.dip_flag_on
                      /\ df_setup[j + 1].Low < d1.lowest_price_value
                   THEN [d1 EXCEPT !.lowest_price_value = df_setup[j + 1].Low,
                                   !.lowest_price_bar_index = j]
                   ELSE d1
         IN  IF /\ d2.dip_flag_on
                /\ d2.lowest_price_bar_index # -1
                /\ j >= d2.lowest_price_bar_index + 2
                /\ d2.lowest_price_bar_index - 2 >= 0
             THEN [d2 EXCEPT !.reversal_point =
                      df_setup[d2.lowest_price_bar_index - 2 + 1].High]
             ELSE d2
    ELSE d

\* Lines 95-118: one iteration of the setup loop.  The loop ends at a bar
\* after search_end_time, when the reversal point is found, or with the last
\* bar; j keeps its value.
BacktestScanStep ==
    /\ pc = "bt_scan"
    /\ LET df_setup == BacktestSetupBars
           past_end == TimeOf(df_setup[setup_j + 1].ts) > SEARCH_END
           d == IF past_end THEN CurrentDip
                ELSE BacktestIterate(CurrentDip, df_setup, setup_j)
       IN  /\ dip_flag_on' = d.dip_flag_on
           /\ lowest_price_value' = d.lowest_price_value
           /\ lowest_price_bar_index' = d.lowest_price_bar_index
           /\ reversal_point' = d.reversal_point
           /\ IF \/ past_end
                 \/ d.reversal_point # None
                 \/ setup_j + 1 >= Len(df_setup)
              THEN pc' = "bt_trigger" /\ UNCHANGED setup_j
              ELSE setup_j' = setup_j + 1 /\ UNCHANGED pc
    /\ UNCHANGED <<config, df_1min, liveVars, day_i, exit_k, entry_found,
                   entry_price, entry_time, profit, stop_loss_price,
                   take_profit_price, statVars, results, report>>

\* Lines 129-140: the trigger bars (1-based) that qualify for the entry:
\* not after search_end_time, after the setup bar j, closing above the
\* reversal point.
TriggerHits ==
    IF reversal_point = None THEN {}
    ELSE LET df_trigger == BacktestTriggerBars
             start_trigger_search_time ==
                 TimeOf(BacktestSetupBars[setup_j + 1].ts)
         IN  {k \in 1..Len(df_trigger) :
                 /\ TimeOf(df_trigger[k].ts) <= SEARCH_END
                 /\ TimeOf(df_trigger[k].ts) > start_trigger_search_time
                 /\ df_trigger[k].Close > reversal_point}

\* The exit policy lines 150, 165 and 182 select.
ExitPolicy ==
    IF config.trailing_stop_percent # None THEN "trailing"
    ELSE IF config.stop_loss_percent # None /\ config.take_profit_percent # None
         THEN "fixed" ELSE "next_open"

\* Lines 121-151 and 166-167: the first qualifying trigger bar gives the
\* entry, at its open; the levels of the exit policy are set.
BacktestEntry ==
    /\ pc = "bt_trigger"
    /\ TriggerHits # {}
    /\ LET k == CHOOSE k \in TriggerHits : \A m \in TriggerHits : k <= m
           bar == BacktestTriggerBars[k]
       IN  /\ entry_price' = bar.Open
           /\ entry_time' = bar.ts
           /\ stop_loss_price' =
                  CASE ExitPolicy = "trailing" ->
                           bar.Open * (100 - config.trailing_stop_percent)
                    [] ExitPolicy = "fixed" ->
                           bar.Open * (100 - config.stop_loss_percent)
                    [] OTHER -> stop_loss_price
           /\ take_profit_price' =
                  IF ExitPolicy = "fixed"
                  THEN bar.Open * (100 + config.take_profit_percent)
                  ELSE take_profit_price
    /\ entry_found' = TRUE
    /\ profit' = 0
    /\ exit_k' = 0
    /\ pc' = "bt_exit"
    /\ UNCHANGED <<config, df_1min, liveVars, day_i, setup_j, dip_flag_on,
                   lowest_price_value, lowest_price_bar_index, reversal_point,
                   statVars, results, report>>

\* Lines 121-146: no entry on this day; the loop goes to the next day.
BacktestNoEntry ==
    /\ pc = "bt_trigger"
    /\ TriggerHits = {}
    /\ day_i' = day_i + 1
    /\ pc' = "bt_day"
    /\ UNCHANGED <<config, df_1min, liveVars, setup_j, exit_k, entry_found,
                   entry_price, entry_time, profit, stop_loss_price,
                   take_profit_price, dip_flag_on, lowest_price_value,
                   lowest_price_bar_index, reversal_point, statVars, results,
                   report>>

\* Lines 152 and 168: the rows of the day after the entry.
exit_search_df == SelectSeq(day_df_1min, LAMBDA b : b.ts > entry_time)

\* The profit, in hundredths of a yen, of an exit at level hundredths.
ProfitAt(level) == (level - entry_price * HUNDREDTHS) * config.qty

\* Lines 153-161: one iteration of the loop of the trailing stop.
TrailingStep ==
    /\ pc = "bt_exit"
    /\ ExitPolicy = "trailing"
    /\ exit_k < Len(exit_search_df)
    /\ LET current_1min_candle == exit_search_df[exit_k + 1]
           new_stop_loss ==
               current_1min_candle.High * (100 - config.trailing_stop_percent)
       IN  IF current_1min_candle.Low * HUNDREDTHS <= stop_loss_price
           THEN /\ profit' = ProfitAt(stop_loss_price)
                /\ pc' = "bt_record"
                /\ UNCHANGED <<exit_k, stop_loss_price>>
           ELSE /\ stop_loss_price' = Max(stop_loss_price, new_stop_loss)
                /\ exit_k' = exit_k + 1
                /\ UNCHANGED <<profit, pc>>
    /\ UNCHANGED <<config, df_1min, liveVars, day_i, setup_j, entry_found,
                   entry_price, entry_time, take_profit_price, dip_flag_on,
                   lowest_price_value, lowest_price_bar_index, reversal_point,
                   statVars, results, report>>

\* Lines 169-178: one iteration of the loop of the fixed stop and target.
FixedStep ==
    /\ pc = "bt_exit"
    /\ ExitPolicy = "fixed"
    /\ exit_k < Len(exit_search_df)
    /\ LET current_1min_candle == exit_search_df[exit_k + 1]
       IN  IF current_1min_candle.Low * HUNDREDTHS <= stop_loss_price
           THEN /\ profit' = ProfitAt(stop_loss_price)
                /\ pc' = "bt_record"
                /\ UNCHANGED exit_k
           ELSE IF current_1min_candle.High * HUNDREDTHS >= take_profit_price
           THEN /\ profit' = ProfitAt(take_profit_price)
                /\ pc' = "bt_record"
                /\ UNCHANGED exit_k
           ELSE /\ exit_k' = exit_k + 1
                /\ UNCHANGED <<profit, pc>>
    /\ UNCHANGED <<config, df_1min, liveVars, day_i, setup_j, entry_found,
                   entry_price, entry_time, stop_loss_price,
                   take_profit_price, dip_flag_on, lowest_price_value,
                   lowest_price_bar_index, reversal_point, statVars, results,
                   report>>

\* Lines 162-164 and 179-181: the loop ended without an exit; the last close
\* of the rows after the entry is the exit, if there is such a row.
ExitAtLastClose ==
    /\ pc = "bt_exit"
    /\ ExitPolicy \in {"trailing", "fixed"}
    /\ exit_k >= Len(exit_search_df)
    /\ profit' = IF exit_search_df # <<>>
                 THEN ProfitAt(exit_search_df[Len(exit_search_df)].Close
                                   * HUNDREDTHS)
                 ELSE profit
    /\ pc' = "bt_record"
    /\ UNCHANGED <<config, df_1min, liveVars, day_i, setup_j, exit_k,
                   entry_found, entry_price, entry_time, stop_loss_price,
                   take_profit_price, dip_flag_on, lowest_price_value,
                   lowest_price_bar_index, reversal_point, statVars, results,
                   report>>

\* Lines 182-187: without exit parameters the exit is the next day's open.
ExitAtNextOpen ==
    /\ pc = "bt_exit"
    /\ ExitPolicy = "next_open"
    /\ LET exit_df_1min ==
               SelectSeq(DayRows(df_1min, next_day),
                         LAMBDA b : TimeOf(b.ts) >= NINE_OCLOCK)
       IN  profit' = IF exit_df_1min # <<>>
                     THEN ProfitAt(exit_df_1min[1].Open * HUNDREDTHS)
                     ELSE profit
    /\ pc' = "bt_record"
    /\ UNCHANGED <<config, df_1min, liveVars, day_i, setup_j, exit_k,
                   entry_found, entry_price, entry_time, stop_loss_price,
                   take_profit_price, dip_flag_on, lowest_price_value,
                   lowest_price_bar_index, reversal_point, statVars, results,
                   report>>

\* Lines 189-199: the trade is recorded, unless its profit is 0; the loop
\* goes to the next day.
RecordTrade ==
    /\ pc = "bt_record"
    /\ IF profit # 0
       THEN /\ total_profit' = total_profit + profit
            /\ trades' = Append(trades, profit)
            /\ IF profit > 0
               THEN /\ wins' = wins + 1
                    /\ gross_profit' = gross_profit + profit
                    /\ UNCHANGED <<losses, gross_loss>>
               ELSE /\ losses' = losses + 1
                    /\ gross_loss' = gross_loss - profit
                    /\ UNCHANGED <<wins, gross_profit>>
       ELSE UNCHANGED statVars
    /\ day_i' = day_i + 1
    /\ pc' = "bt_day"
    /\ UNCHANGED <<config, df_1min, liveVars, setup_j, exit_k, entry_found,
                   entry_price, entry_time, profit, stop_loss_price,
                   take_profit_price, dip_flag_on, lowest_price_value,
                   lowest_price_bar_index, reversal_point, results, report>>

\* Line 202: the dictionary returned when no trade was recorded; it has no
\* key 'trades'.
NoTradesResult ==
    [total_profit |-> 0, win_rate |-> <<0, 1>>, total_trades |-> 0,
     wins |-> 0, losses |-> 0, gross_profit |-> 0, gross_loss |-> 0]

\* Lines 204-214.  win_rate, the quotient (wins / len(trades)) * 100, is kept
\* as the pair of its numerator and denominator.
TradesResult ==
    [total_profit |-> total_profit,
     win_rate |-> <<wins * 100, Len(trades)>>,
     total_trades |-> Len(trades), wins |-> wins, losses |-> losses,
     gross_profit |-> gross_profit, gross_loss |-> gross_loss,
     trades |-> trades]

\* Lines 66 and 201-214: the loop over the days, which leaves out the last
\* day, has ended and run_backtest returns.
BacktestReturn ==
    /\ pc = "bt_day"
    /\ day_i >= Len(UniqueDays(df_1min)) - 1
    /\ results' = IF trades = <<>> THEN NoTradesResult ELSE TradesResult
    /\ pc' = "bt_report"
    /\ UNCHANGED <<config, df_1min, liveVars, day_i, setup_j, exit_k,
                   entry_found, entry_price, entry_time, profit,
                   stop_loss_price, take_profit_price, dip_flag_on,
                   lowest_price_value, lowest_price_bar_index, reversal_point,
                   statVars, report>>

\* Lines 247-250: the profit factor as the __main__ block logs it: the
\* quotient of gross profit and gross loss, kept as the pair of the two, or
\* "Inf (No Gross Loss)".
ProfitFactorLogged(r) ==
    IF r.gross_loss > 0
    THEN [infinite |-> FALSE, quotient |-> <<r.gross_profit, r.gross_loss>>]
    ELSE [infinite |-> TRUE, quotient |-> <<>>]

\* Lines 238-261: the __main__ block logs the results (a dictionary, hence
\* true at line 238), the profit factor among them, and then reads
\* results['trades'], which raises KeyError when the key is absent.
BacktestReport ==
    /\ pc = "bt_report"
    /\ report' = <<[line |-> "Total Trades", value |-> results.total_trades],
                   [line |-> "Profit Factor",
                    value |-> ProfitFactorLogged(results)]>>
                 \o (IF "trades" \in DOMAIN results THEN <<>>
                     ELSE <<[line |-> "KeyError", value |-> "trades"]>>)
    /\ pc' = "bt_done"
    /\ UNCHANGED <<config, df_1min, liveVars, day_i, setup_j, exit_k,
                   entry_found, entry_price, entry_time, profit,
                   stop_loss_price, take_profit_price, dip_flag_on,
                   lowest_price_value, lowest_price_bar_index, reversal_point,
                   statVars, results>>

\* run_backtest and the report of its results.
NextBacktest ==
    \/ BacktestDayStart
    \/ BacktestScanStep
    \/ BacktestEntry
    \/ BacktestNoEntry
    \/ TrailingStep
    \/ FixedStep
    \/ ExitAtLastClose
    \/ ExitAtNextOpen
    \/ RecordTrade
    \/ BacktestReturn
    \/ BacktestReport

\* ------------------------------------------------- the tables of the replay
\* Rows the variable part of a day is made of.  An entry is at the open 100,
\* so that with 1 % the stop is 99 and the target 101: UpRow reaches the
\* target, DownRow the stop, TouchRow touches both exactly and QuietRow
\* neither; HoldRow stays above a stop trailed from 102 without raising it.
MaxTail == 3

UpRow(ts) == Bar(ts, 100, 102, 100, 102)
DownRow(ts) == Bar(ts, 100, 100, 98, 98)
TouchRow(ts) == Bar(ts, 100, 101, 99, 100)
QuietRow(ts) == Bar(ts, 100, 100, 100, 100)
HoldRow(ts) == Bar(ts, 101, 101, 101, 101)
RowKinds == {"up", "down", "touch", "quiet", "hold"}

RowOf(kind, ts) ==
    CASE kind = "up" -> UpRow(ts)
      [] kind = "down" -> DownRow(ts)
      [] kind = "hold" -> HoldRow(ts)
      [] kind = "touch" -> TouchRow(ts)
      [] OTHER -> QuietRow(ts)

\* The first rows of a day, one a minute from 9:00, by their closes: a fall
\* of three closes that starts with the 9:00 row, one that starts after it,
\* and rising closes.  The 9:00 row opens at 99.
OpeningCloses == {<<100, 99, 98, 99, 99>>, <<100, 100, 99, 98, 99, 99>>,
                  <<100, 101, 102, 103, 104>>}

OpeningRows(day, closes) ==
    [n \in 1..Len(closes) |->
        LET ts == day * 1440 + NINE_OCLOCK + n - 1
        IN  IF n = 1 THEN Bar(ts, 99, closes[1], 99, closes[1])
            ELSE FlatBar(ts, closes[n])]

\* A day: opening rows, then a row a minute of the given kinds.
DayTable(day, closes, kinds) ==
    OpeningRows(day, closes)
    \o [n \in 1..Len(kinds) |->
           RowOf(kinds[n], day * 1440 + NINE_OCLOCK + Len(closes) + n - 1)]

Tails == UNION {[1..n -> RowKinds] : n \in 0..MaxTail}

\* What may follow the first day: nothing, or a second day with an entry
\* and a row that reaches the stop.
SecondDays == {<<>>, <<"up", "down">>}

\* The last day of a table, which run_backtest does not replay: one row at
\* 9:00, flat at 102.
LastDay(day) == <<FlatBar(day * 1440 + NINE_OCLOCK, 102)>>

Tables ==
    {DayTable(0, closes, kinds) \o LastDay(1) :
        closes \in OpeningCloses, kinds \in Tails}
    \cup {DayTable(0, closes, kinds)
          \o DayTable(1, <<100, 99, 98, 99, 99>>, second) \o LastDay(2) :
              closes \in OpeningCloses, kinds \in Tails,
              second \in SecondDays \ {<<>>}}

\* The three exit policies, with 1-minute setup and trigger bars.
BacktestConfigs ==
    {BacktestConfig(1, 1, 1, 1, None), BacktestConfig(1, 1, None, None, 1),
     BacktestConfig(1, 1, None, None, None)}

InitBacktest ==
    \E cfg \in BacktestConfigs, table \in Tables : BacktestStarted(cfg, table)

SpecBacktest == InitBacktest /\ [][NextBacktest]_vars

\* ================================================================ claims
\* A step of a state handler: the control thread moves from the dispatch of
\* lines 350-357 back to the head of the loop.
HandlerStep == pc = "dispatch" /\ pc' = "loop"
\* The handler's query of the order list in this step was answered.
QueryAnswered == Len(calls') >= 1 /\ calls'[1] = QueryCall
\* Broker operations called in the step that leads to the primed state.
CalledNext(op) == \E i \in 1..Len(calls') : calls'[i].op = op
\* Notifications of the step that leads to the primed state.
SentNext(kind) == \E i \in 1..Len(sent') : sent'[i].kind = kind
SentEmergencyNext ==
    \E i \in 1..Len(sent') : sent'[i].kind \in
        {"emergency_order_not_found", "emergency_stop_place_failed",
         "emergency_stop_cancel_failed", "emergency_take_profit_failed"}
SentNow(kind) == \E i \in 1..Len(sent) : sent[i].kind = kind

\* C1: in WAITING_FOR_ENTRY, when the order list is read, the entry order id
\* is absent from it and the retries are used up, the handler stops the bot
\* (is_bot_running false, BotState not IDLE) and notifies the operator.
C1_RetriesExhaustedIsFatal ==
    [][(/\ HandlerStep
        /\ state = "WAITING_FOR_ENTRY"
        /\ ~EntryFound
        /\ entry_order_check_retries >= MAX_ENTRY_RETRIES
        /\ QueryAnswered)
       => (/\ ~is_bot_running'
           /\ state' # "IDLE"
           /\ SentNext("emergency_order_not_found"))]_vars

\* The step placed a stop order at the new stop_loss_price and recorded its id.
StopAcceptedNext ==
    /\ CalledNext("send_stop_sell_order")
    /\ orders' = Append(orders, Order("stop", config.qty, stop_loss_price'))
    /\ stop_loss_order_id' = Len(orders')
\* The handler's stop order was rejected by the broker.
StopRejectedNext ==
    /\ HandlerStep
    /\ CalledNext("send_stop_sell_order")
    /\ orders' = orders

\* C2: POSITION_OPEN is entered only by the step in which the broker accepted
\* a stop order at stop_loss_price; whenever BotState is POSITION_OPEN a
\* stop-loss order id is recorded; and when the stop placement after a fill
\* is rejected, BotState stays WAITING_FOR_ENTRY, the bot stops, the
\* emergency notification is sent, and BotState does not change afterwards.
C2_PositionOpenOnlyWithStop ==
    [][/\ (state # "POSITION_OPEN" /\ state' = "POSITION_OPEN")
              => StopAcceptedNext
       /\ state' = "POSITION_OPEN"
              => /\ stop_loss_order_id' \in 1..Len(orders')
                 /\ orders'[stop_loss_order_id'].kind = "stop"
                 /\ orders'[stop_loss_order_id'].price = stop_loss_price'
       /\ StopRejectedNext
              => /\ state' = "WAITING_FOR_ENTRY"
                 /\ ~is_bot_running'
                 /\ SentNext("emergency_stop_place_failed")
       /\ ~is_bot_running => state' = state]_vars

\* The bot has just entered POSITION_OPEN behind an accepted stop order.
C2_Witness ==
    /\ state = "POSITION_OPEN"
    /\ Len(calls) = 2
    /\ calls[2] = Call("send_stop_sell_order", <<config.qty, stop_loss_price>>)
    /\ orders[stop_loss_order_id].kind = "stop"

\* C3: no trade cycle contains both a stop-loss order that the list shows
\* executed and a submitted take-profit sell: a limit sell order is never
\* preceded by an executed stop order of its cycle.  (The stop order of a
\* cycle is the order submitted right before the cycle's limit sell.)
C3_NoSellAfterStopFill ==
    \A i \in 2..Len(orders) :
        orders[i].kind = "limit" => ~ShowsExecuted(orders[i - 1])

\* C4: a take-profit sell is submitted only by a WAITING_FOR_CANCEL step
\* whose poll showed the stop-loss order cancelled, after its cancellation
\* was requested; never while the stop-loss order is working; and a rejected
\* cancellation request or a rejected take-profit submission stops the bot.
C4_SellOnlyAfterConfirmedCancel ==
    [][/\ (HandlerStep /\ CalledNext("send_limit_sell_order"))
              => /\ state = "WAITING_FOR_CANCEL"
                 /\ StopFound
                 /\ orders[stop_loss_order_id].cancel_requested
                 /\ ~ShowsWorking(orders[stop_loss_order_id])
                 /\ ShowsCancelled(orders[stop_loss_order_id])
       /\ (HandlerStep /\ CalledNext("cancel_order") /\ orders' = orders)
              => ~is_bot_running'
       /\ (HandlerStep /\ CalledNext("send_limit_sell_order")
                       /\ orders' = orders)
              => ~is_bot_running']_vars

\* The transitions of BotState that the state diagram allows.
Edges ==
    {<<"IDLE", "WAITING_FOR_ENTRY">>,
     <<"WAITING_FOR_ENTRY", "POSITION_OPEN">>,
     <<"WAITING_FOR_ENTRY", "IDLE">>,
     <<"POSITION_OPEN", "WAITING_FOR_CANCEL">>,
     <<"POSITION_OPEN", "CLOSING">>,
     <<"WAITING_FOR_CANCEL", "CLOSING">>,
     <<"CLOSING", "IDLE">>}

\* C5: BotState starts as IDLE and changes only along the seven edges
\* IDLE->WAITING_FOR_ENTRY, WAITING_FOR_ENTRY->POSITION_OPEN,
\* WAITING_FOR_ENTRY->IDLE, POSITION_OPEN->WAITING_FOR_CANCEL,
\* POSITION_OPEN->CLOSING, WAITING_FOR_CANCEL->CLOSING, CLOSING->IDLE.
C5_OnlyTheseEdges ==
    /\ state = "IDLE"
    /\ [][state' # state => <<state, state'>> \in Edges]_vars

\* A whole trade cycle through WAITING_FOR_CANCEL has come back to IDLE.
C5_Witness ==
    /\ state = "IDLE"
    /\ Len(orders) = 3
    /\ orders[3].kind = "limit"

\* Every DipState field is empty after the step.
DipClearedNext ==
    /\ dip_flag_on' = FALSE
    /\ dip_start_timestamp' = None
    /\ lowest_price_value' = Inf
    /\ lowest_price_bar_index' = -1
    /\ reversal_point' = None

\* C6: on an entry signal in IDLE exactly one market buy for the configured
\* quantity is submitted; accepted: BotState becomes WAITING_FOR_ENTRY, the
\* order id is recorded and every DipState field is cleared; rejected:
\* BotState stays IDLE, no order id is recorded, the bot stops and the
\* operator is notified.
C6_EntrySubmission ==
    [][(LoopOpen /\ EntrySignal /\ pc' = "dispatch")
       => /\ state = "IDLE"
          /\ calls' = <<Call("send_market_order", config.qty)>>
          /\ \/ orders' = Append(orders, Order("buy", config.qty, None))
             \/ orders' = orders
          /\ orders' # orders
                => /\ state' = "WAITING_FOR_ENTRY"
                   /\ entry_order_id' = Len(orders')
                   /\ is_bot_running' = is_bot_running
                   /\ DipClearedNext
          /\ orders' = orders
                => /\ state' = "IDLE"
                   /\ entry_order_id' = entry_order_id
                   /\ ~is_bot_running'
                   /\ SentNext("entry_order_failed")]_vars

\* The buy was accepted a moment ago: the id is recorded, DipState is empty.
C6_Witness ==
    /\ state = "WAITING_FOR_ENTRY"
    /\ pc = "dispatch"
    /\ calls = <<Call("send_market_order", config.qty)>>
    /\ entry_order_id = Len(orders)
    /\ orders[entry_order_id].kind = "buy"
    /\ CurrentDip = EmptyDip

\* The list shows the entry order with state code 3, or finished (5) without
\* an execution.
EntryShownFailedOrCancelled ==
    /\ EntryFound
    /\ \/ orders[entry_order_id].State = 3
       \/ ShowsCancelled(orders[entry_order_id])

\* C7: in WAITING_FOR_ENTRY, when the list shows the entry order failed
\* (state code 3) or cancelled (finished without an execution), the handler
\* returns to IDLE with the entry order id cleared, no position recorded and
\* no stop order placed, keeps the bot running and sends no emergency
\* notification.
C7_FailedEntryReturnsToIdle ==
    [][(/\ HandlerStep
        /\ state = "WAITING_FOR_ENTRY"
        /\ EntryShownFailedOrCancelled
        /\ QueryAnswered)
       => (/\ state' = "IDLE"
           /\ entry_order_id' = None
           /\ entry_price' = 0
           /\ entry_time' = None
           /\ ~CalledNext("send_stop_sell_order")
           /\ is_bot_running'
           /\ ~SentEmergencyNext)]_vars

\* An entry order was submitted and the order list does not show it.
AbsentSoFar == entry_order_id # None /\ ~EntryFound

C9_ClosingResetsEverything ==
    [][(HandlerStep /\ state = "CLOSING")
       => (/\ state' = "IDLE"
           /\ entry_price' = 0
           /\ entry_time' = None
           /\ stop_loss_price' = 0
           /\ take_profit_price' = 0
           /\ DipClearedNext
           /\ entry_order_id' = None
           /\ stop_loss_order_id' = None)]_vars

\* The bot's fields hold an entry price and an entry time.
PositionRecorded == entry_price > 0 /\ entry_time # None

\* C10: a Position is recorded (entry price and entry time set) if and only
\* if BotState is POSITION_OPEN, WAITING_FOR_CANCEL or CLOSING.
C10_PositionIffOpenStates ==
    PositionRecorded
        <=> state \in {"POSITION_OPEN", "WAITING_FOR_CANCEL", "CLOSING"}

\* The step of run()'s finally block.
ShutdownStep == pc = "finally" /\ pc' = "done"

\* C11: once an exit reason is captured it is never replaced by another one,
\* and the final lifecycle notification of every shutdown states it.
C11_CapturedReasonIsReported ==
    [][/\ exit_reason # "Unknown" => exit_reason' = exit_reason
       /\ ShutdownStep => sent' = <<Notice("stop", exit_reason)>>]_vars

\* The shutdown step asked the broker to cancel order id.
CancelAttemptedNext(id) ==
    \E i \in 1..Len(calls') : calls'[i] = Call("cancel_order", id)

\* C12: on every shutdown, manual interruption included, the entry order is
\* cancelled exactly when its id is recorded and BotState is
\* WAITING_FOR_ENTRY, the stop-loss order exactly when its id is recorded,
\* and the feed is closed after these cancellations, which are the only
\* other broker calls of the shutdown.
C12_ShutdownCleanup ==
    [][ShutdownStep =>
          /\ CancelAttemptedNext(entry_order_id)
                 <=> (entry_order_id # None /\ state = "WAITING_FOR_ENTRY")
          /\ CancelAttemptedNext(stop_loss_order_id)
                 <=> stop_loss_order_id # None
          /\ calls'[Len(calls')] = Call("close_websocket", None)
          /\ \A i \in 1..(Len(calls') - 1) : calls'[i].op = "cancel_order"
          /\ ~ws_open']_vars

\* The operator interrupted the bot while it waited for its entry order: the
\* shutdown cancelled that order and closed the feed.
C12_Witness ==
    /\ pc = "done"
    /\ exit_reason = "Manual interruption (KeyboardInterrupt)."
    /\ state = "WAITING_FOR_ENTRY"
    /\ calls = <<Call("cancel_order", entry_order_id),
                 Call("close_websocket", None)>>

\* A step of the loop body or of a state handler.
LoopOrHandlerStep == pc' # pc /\ pc' \in {"loop", "dispatch"}

\* C13: every step of the order lifecycle that stops the bot sends an error
\* notification in that step, and so does the step that finds the retries
\* for an absent entry order used up.
C13_FatalConditionsNotify ==
    [][/\ (LoopOrHandlerStep /\ is_bot_running /\ ~is_bot_running')
              => \E i \in 1..Len(sent') : sent'[i].subject = "error"
       /\ (/\ HandlerStep
           /\ state = "WAITING_FOR_ENTRY"
           /\ ~EntryFound
           /\ entry_order_check_retries >= MAX_ENTRY_RETRIES
           /\ QueryAnswered)
              => SentNext("emergency_order_not_found")]_vars

\* The handler's query of the order list in this step failed.
QueryFailedNext == Len(calls') >= 1 /\ calls'[1] = QueryFailedCall

\* C14: a handler step whose order-list query fails leaves the bot running
\* and in the same BotState, in every polling state.
C14_FailedQueryIsTransient ==
    [][(HandlerStep /\ QueryFailedNext /\ is_bot_running)
          => (is_bot_running' /\ state' = state)]_vars

\* A pass through the loop body of lines 320-348.
LoopBodyStep == pc = "loop" /\ pc' = "dispatch"

ScannedBars == SetupBars(df_1min, config)
\* The closes of the bars k-2, k-1, k of s (k counted from 1) fall strictly.
FallsAt(s, k) ==
    /\ k >= 3
    /\ s[k].Close < s[k - 1].Close
    /\ s[k - 1].Close < s[k - 2].Close
\* The first bar of s at which the closes have fallen twice in a row.
FirstFall(s) ==
    CHOOSE k \in 1..Len(s) : FallsAt(s, k) /\ \A m \in 1..(k - 1) : ~FallsAt(s, m)

\* C16: scanning from the empty DipState, the flag is on exactly when some
\* scanned bar j >= 2 closes a strict three-bar fall; the start of the dip is
\* the first such bar, however many falls follow; the lowest-low tracking
\* started afresh at that bar; and with the flag off the DipState is empty.
C16_FlagOnAtFirstDip ==
    pc = "scan" =>
        LET s == ScannedBars
        IN  /\ dip_flag_on <=> \E k \in 1..Len(s) : FallsAt(s, k)
            /\ ~dip_flag_on => CurrentDip = EmptyDip
            /\ dip_flag_on =>
                  /\ dip_start_timestamp = s[FirstFall(s)].ts
                  /\ lowest_price_bar_index >= FirstFall(s) - 1
                  /\ lowest_price_value <= s[FirstFall(s)].Low
                  /\ Len(s) = FirstFall(s) =>
                        /\ lowest_price_value = s[Len(s)].Low
                        /\ lowest_price_bar_index = Len(s) - 1
                        /\ reversal_point = None

\* A second three-bar fall was scanned after the one that started the dip.
C16_Witness ==
    /\ pc = "scan"
    /\ dip_flag_on
    /\ \E k \in 1..Len(ScannedBars) :
           /\ FallsAt(ScannedBars, k)
           /\ k >= FirstFall(ScannedBars) + 3
    /\ dip_start_timestamp = ScannedBars[FirstFall(ScannedBars)].ts

\* The least element of a non-empty set of numbers.
SetMin(S) == CHOOSE x \in S : \A y \in S : x <= y

\* lowest_price_value is the least low of the scanned bars from the start of
\* the dip on and lowest_price_bar_index the first bar that has it.
LowestIsMinimum ==
    (pc = "scan" /\ dip_flag_on) =>
        LET s == ScannedBars
            since == {k \in 1..Len(s) : s[k].ts >= dip_start_timestamp}
            m == SetMin({s[k].Low : k \in since})
        IN  /\ lowest_price_value = m
            /\ lowest_price_bar_index + 1 =
                   SetMin({k \in since : s[k].Low = m})

\* C17: after every iteration of the scan with the flag on, lowestLow is the
\* minimum low of the bars at or after dipStartTime scanned so far, held by
\* the earliest bar that attains it, and lowestLow never increases.
C17_LowestTracksMinimum ==
    /\ []LowestIsMinimum
    /\ [][(dip_flag_on /\ dip_flag_on')
             => lowest_price_value' <= lowest_price_value]_vars

\* A later bar of the dip has the same low as the lowest bar.
C17_Witness ==
    /\ pc = "scan"
    /\ dip_flag_on
    /\ \E k \in 1..Len(ScannedBars) :
           /\ k > lowest_price_bar_index + 1
           /\ ScannedBars[k].Low = lowest_price_value

\* C18: an iteration j of the scan (j the number of bars scanned before it)
\* changes reversalPoint only when lowestLowBarIndex >= 2 and
\* j >= lowestLowBarIndex + 2, and then to the high of the bar at
\* lowestLowBarIndex - 2; a reversal point that was set changes only when the
\* lowest bar has moved on from the bar i it was derived from to a bar with
\* a strictly lower low.
C18_ReversalPointRule ==
    [][(pc = "scan" /\ reversal_point' # reversal_point) =>
          LET s == ScannedBars
              j == Len(ScannedBars)
              idx == lowest_price_bar_index'
          IN  /\ idx >= 2
              /\ j >= idx + 2
              /\ reversal_point' = s[idx - 2 + 1].High
              /\ reversal_point # None =>
                    \E i \in 2..(idx - 1) :
                        /\ reversal_point = s[i - 2 + 1].High
                        /\ s[idx + 1].Low < s[i + 1].Low]_vars

\* The reversal point was set from the lowest bar at index 2 and then moved,
\* after the bar at index 5 made a lower low, to the high of the bar at 3.
C18_Witness ==
    /\ pc = "scan"
    /\ Len(df_1min) = 8
    /\ df_1min[1].Close = 100
    /\ df_1min[2].Close = 99
    /\ df_1min[3].Close = 98
    /\ df_1min[4].Close = 99
    /\ df_1min[5].Close = 99
    /\ df_1min[6].Low = 97
    /\ lowest_price_bar_index = 5
    /\ reversal_point = df_1min[4].High

\* C19: after an entry order was submitted and DipState cleared, DipState
\* leaves the empty value only by a dip that starts at the bar just closed,
\* hence without a reversal point: bars that closed before the reset do not
\* bring the flag or the reversal point back.
C19_ConsumedDipStaysConsumed ==
    [][(entry_order_id # None /\ CurrentDip = EmptyDip /\ dip_flag_on')
          => /\ dip_start_timestamp' = df_1min'[Len(df_1min')].ts
             /\ reversal_point' = None]_vars

\* The 0-based index of the latest bar of the scenario.
ScenarioIndex == Len(df_1min) - 1
\* Lines 328-337 on the detector's state and the bars so far.
EntryTriggers == TriggerFires(CurrentDip, df_1min, config)

\* C20 as written: for the closes 100, 99, 98, 97, 96, 95, 99, 101 the flag
\* turns on at index 2, the lowest low is held at index 4, the reversal point
\* is set at index 6 to the high of index 2, and the entry triggers at
\* index 7.
C20_ScenarioAsWritten ==
    pc = "scenario" =>
        /\ dip_flag_on <=> ScenarioIndex >= 2
        /\ dip_flag_on => dip_start_timestamp = df_1min[3].ts
        /\ ScenarioIndex >= 4 => lowest_price_bar_index = 4
        /\ ScenarioIndex < 6 => reversal_point = None
        /\ ScenarioIndex >= 6 => reversal_point = df_1min[3].High
        /\ ScenarioIndex = 7 => EntryTriggers

\* C20 amended: the flag turns on at index 2, the lowest low follows the
\* falling closes to index 5 (95) and stays there, the reversal point is set
\* at index 7 to the high of index 3, and the entry triggers at index 7 and
\* not before.
C20_ScenarioAsComputed ==
    pc = "scenario" =>
        /\ dip_flag_on <=> ScenarioIndex >= 2
        /\ dip_flag_on => dip_start_timestamp = df_1min[3].ts
        /\ ScenarioIndex \in 2..5 => lowest_price_bar_index = ScenarioIndex
        /\ ScenarioIndex >= 5 =>
              /\ lowest_price_bar_index = 5
              /\ lowest_price_value = 95
        /\ ScenarioIndex < 7 => reversal_point = None
        /\ ScenarioIndex = 7 => reversal_point = df_1min[4].High
        /\ EntryTriggers <=> ScenarioIndex = 7

\* The scenario has run to its last bar: the reversal point is the high of
\* index 3, which differs from the high of index 2, and the entry triggers.
C20_Witness ==
    /\ pc = "scenario"
    /\ ScenarioIndex = 7
    /\ reversal_point = df_1min[4].High
    /\ df_1min[4].High # df_1min[3].High
    /\ EntryTriggers

\* r is the integer nearest to num/den (den > 0), the even one of the two
\* when num/den lies half-way between them.
NearestEven(r, num, den) ==
    LET twice == IF r * den >= num THEN 2 * (r * den - num)
                 ELSE 2 * (num - r * den)
    IN  /\ twice <= den
        /\ twice = den => r % 2 = 0

\* The handler step that finds the entry order executed at a positive price.
FillStep == HandlerStep /\ state = "WAITING_FOR_ENTRY" /\ EntryExecuted

\* C21: the step that finds the entry order filled at price P records P and
\* sets stopLossPrice to P x (1 - slPct/100) and takeProfitPrice to
\* P x (1 + tpPct/100), both rounded to the nearest integer with ties to the
\* even one, whatever the current price is; no other step changes them.
C21_ExitPricesFromFillPrice ==
    [][/\ FillStep =>
             LET P == orders[entry_order_id].Price
             IN  /\ entry_price' = P
                 /\ NearestEven(stop_loss_price',
                                P * (100 - config.stop_loss_percent), 100)
                 /\ NearestEven(take_profit_price',
                                P * (100 + config.take_profit_percent), 100)
       /\ (\/ stop_loss_price' # stop_loss_price
           \/ take_profit_price' # take_profit_price) => FillStep]_vars

\* An entry filled at 150 with 1 % on either side, the current price being
\* 102: 148.5 and 151.5 went to the even neighbours 148 and 152.
C21_Witness ==
    /\ entry_price = 150
    /\ current_price = 102
    /\ config.stop_loss_percent = 1
    /\ config.take_profit_percent = 1
    /\ stop_loss_price = 148
    /\ take_profit_price = 152

\* The loop body appended a bar to the series in this step.
BarAppendedNext == LoopBodyStep /\ Len(df_1min') = Len(df_1min) + 1

\* C22: a bar is labelled with the right edge of its interval: every tick of
\* the buffer it is built from was received in the minute that ends at the
\* bar's label, so a tick received during minute m (Timestamp = m on the
\* model's clock) belongs to the bar labelled m + 1.
C22_BarLabelledByRightEdge ==
    [][BarAppendedNext =>
          \A i \in 1..Len(ticks_in_current_bar) :
              ticks_in_current_bar[i].Timestamp + 1
                  = df_1min'[Len(df_1min')].ts]_vars

\* The ticks of the emitted bars, oldest first.
RECURSIVE Flatten(_)
Flatten(ss) == IF ss = <<>> THEN <<>> ELSE Head(ss) \o Flatten(Tail(ss))

\* The ticks _aggregate_ticks has swapped out and not yet put into a bar.
SwappedOut ==
    IF pc \in {"agg_release", "agg_build"} THEN ticks_to_process ELSE <<>>

\* The ticks appended so far are, in arrival order, those of the emitted
\* bars, then those swapped out, then those in the buffer.
TicksConserved ==
    Flatten(bar_ticks) \o SwappedOut \o ticks_in_current_bar = received

\* Every bar of the series is the bar of its own ticks, none without ticks.
BarsFromTheirTicks ==
    /\ Len(bar_ticks) = Len(df_1min)
    /\ \A k \in 1..Len(df_1min) :
           /\ bar_ticks[k] # <<>>
           /\ df_1min[k] = NewBar(bar_ticks[k], df_1min[k].ts)

\* A thread holds the lock exactly inside its with block.
LockOnlyInsideWith ==
    /\ ticks_lock = "control" <=> pc \in {"agg_copy", "agg_clear", "agg_release"}
    /\ ticks_lock = "feed" <=> feed_pc \in {"append", "release"}

\* C23: under every interleaving of on_message and _aggregate_ticks each
\* appended tick is in exactly one emitted bar or still pending, in arrival
\* order; the lock is held only around the append and around the swap, and
\* the control thread does not hold it in a step that calls the broker or
\* writes to the store.
C23_NoTickLostOrDuplicated ==
    /\ [](TicksConserved /\ BarsFromTheirTicks /\ LockOnlyInsideWith)
    /\ [][calls' # <<>> /\ calls' # calls
             => ticks_lock # "control" /\ ticks_lock' # "control"]_vars

\* A tick arrived after the swap and before the bar was built: the feed put
\* it into the fresh buffer while the swapped-out ticks wait for their bar,
\* a first bar having been emitted before.
C23_Witness ==
    /\ pc = "agg_build"
    /\ ticks_to_process # <<>>
    /\ ticks_in_current_bar # <<>>
    /\ Len(bar_ticks) = 1
    /\ Len(received) = 3

\* A pass through the loop body in a minute later than last_bar_timestamp:
\* the rollover of lines 320-348.
RolloverStep == LoopBodyStep /\ NewMinute

\* b is the bar of the ticks t: open and close are the first and the last
\* price, high and low the greatest and the least, the volume is 0.
BarOfTicks(b, t) ==
    /\ b.Open = t[1].Price
    /\ b.Close = t[Len(t)].Price
    /\ \A i \in 1..Len(t) : b.Low <= t[i].Price /\ t[i].Price <= b.High
    /\ \E i \in 1..Len(t) : t[i].Price = b.High
    /\ \E i \in 1..Len(t) : t[i].Price = b.Low
    /\ b.Volume = 0

\* C24: a rollover with a non-empty buffer appends exactly one bar to the
\* series, the bar of the buffer's ticks, with low <= open, close <= high,
\* and empties the buffer; a rollover with an empty buffer leaves BarSeries
\* and DipState as they are and submits no entry.
C24_RolloverEmitsBarOfTicks ==
    [][RolloverStep =>
          IF ticks_in_current_bar # <<>>
          THEN /\ Len(df_1min') = Len(df_1min) + 1
               /\ SubSeq(df_1min', 1, Len(df_1min)) = df_1min
               /\ ticks_in_current_bar' = <<>>
               /\ LET b == df_1min'[Len(df_1min')]
                  IN  /\ BarOfTicks(b, ticks_in_current_bar)
                      /\ b.Low <= b.Open /\ b.Open <= b.High
                      /\ b.Low <= b.Close /\ b.Close <= b.High
          ELSE /\ df_1min' = df_1min
               /\ UNCHANGED dipVars
               /\ state' = state
               /\ calls' = <<>>]_vars

\* The first minute gave a bar of three ticks 102, 100, 100 after the dip
\* history, and the second minute passed without a tick and without a bar.
C24_Witness ==
    /\ pc = "dispatch"
    /\ Len(df_1min) = 5
    /\ df_1min[5] = Bar(start_minute, 102, 102, 100, 100)
    /\ last_bar_timestamp = start_minute + 2
    /\ ticks_in_current_bar = <<>>
    /\ reversal_point = 100
    /\ state = "IDLE"

\* C25: the setup bar labelled 9:00 takes no part in the analysis of the
\* backtest replay, as it takes none in the live bot's (line 168 of the bot):
\* in every iteration of the setup loop, the three closes that turn the flag
\* on are of bars not labelled 9:00, and so are the bar of the lowest low
\* and the bar whose high becomes the reversal point.
C25_NineOClockBarExcluded ==
    [][BacktestScanStep =>
          LET df_setup == BacktestSetupBars
              labelled_nine(m) == TimeOf(df_setup[m + 1].ts) = NINE_OCLOCK
          IN  /\ (~dip_flag_on /\ dip_flag_on') =>
                     \A m \in {setup_j - 2, setup_j - 1, setup_j} :
                         ~labelled_nine(m)
              /\ lowest_price_bar_index' # -1 =>
                     ~labelled_nine(lowest_price_bar_index')
              /\ reversal_point' # None =>
                     ~labelled_nine(lowest_price_bar_index' - 2)]_vars

\* The setup bars scanned so far hold no three closes that fall strictly.
NoFallSoFar == \A k \in 1..Len(ScannedBars) : ~FallsAt(ScannedBars, k)

SessionLastClose == day_df_1min[Len(day_df_1min)].Close

\* The rows after the entry (1-based) that touch the stop or the target.
TouchingRows ==
    {k \in 1..Len(exit_search_df) :
        \/ exit_search_df[k].Low * HUNDREDTHS <= stop_loss_price
        \/ exit_search_df[k].High * HUNDREDTHS >= take_profit_price}

\* C27: with a fixed stop and target, the trade exits at the first row
\* after the entry that touches a level, at the stop if that row's low is
\* at or below it (also when the row touches both) and at the target
\* otherwise; if no row touches a level, the exit is the last close of the
\* session.
C27_FixedExitPolicy ==
    (pc = "bt_record" /\ ExitPolicy = "fixed") =>
        /\ stop_loss_price = entry_price * (100 - config.stop_loss_percent)
        /\ take_profit_price = entry_price * (100 + config.take_profit_percent)
        /\ profit = ProfitAt(
              IF TouchingRows # {}
              THEN LET k == SetMin(TouchingRows)
                   IN  IF exit_search_df[k].Low * HUNDREDTHS <= stop_loss_price
                       THEN stop_loss_price ELSE take_profit_price
              ELSE SessionLastClose * HUNDREDTHS)

\* The exit level of a stop trailed over rows from the level stop: the stop
\* at the first row whose low is at or below it, the stop being raised after
\* each row to that row's high less the percentage; None if no row gets
\* there.
RECURSIVE TrailedExit(_, _)
TrailedExit(rows, stop) ==
    IF rows = <<>> THEN None
    ELSE IF rows[1].Low * HUNDREDTHS <= stop THEN stop
    ELSE TrailedExit(Tail(rows),
                     Max(stop, rows[1].High
                                   * (100 - config.trailing_stop_percent)))

\* C28: with a trailing stop, the stop starts at the entry price less the
\* percentage, never decreases during the trade, and the trade exits at the
\* stop at the first row whose low is at or below it, or at the last close
\* of the session if no row gets there.
C28_TrailingExitPolicy ==
    /\ [](pc = "bt_record" /\ ExitPolicy = "trailing" =>
             LET exit == TrailedExit(exit_search_df,
                             entry_price
                                 * (100 - config.trailing_stop_percent))
             IN  profit = ProfitAt(IF exit # None THEN exit
                                   ELSE SessionLastClose * HUNDREDTHS))
    /\ [][(pc = "bt_exit" /\ ExitPolicy = "trailing")
              => stop_loss_price' >= stop_loss_price]_vars

\* The sum of the profits of a list of trades.
RECURSIVE SumOfTrades(_)
SumOfTrades(t) == IF t = <<>> THEN 0 ELSE t[1] + SumOfTrades(Tail(t))

\* C29: every session with an entry adds exactly one trade, with the profit
\* of its exit, to the list of trades, a profit of zero included; and the
\* result run_backtest returns has total_trades = wins + losses,
\* total_profit = gross_profit - gross_loss = the sum of the trades'
\* profits, and win_rate = wins / total_trades (as a percentage).
C29_EveryEntryOneTrade ==
    /\ [][(pc = "bt_record" /\ pc' = "bt_day")
              => trades' = Append(trades, profit)]_vars
    /\ []((pc \in {"bt_report", "bt_done"} /\ results.total_trades > 0) =>
             /\ results.total_trades = Len(results.trades)
             /\ results.total_trades = results.wins + results.losses
             /\ results.total_profit
                    = results.gross_profit - results.gross_loss
             /\ results.total_profit = SumOfTrades(results.trades)
             /\ results.win_rate
                    = <<results.wins * 100, results.total_trades>>)

\* The profit factor the report has logged.
ReportedProfitFactor ==
    (CHOOSE l \in {report[n] : n \in 1..Len(report)} :
        l.line = "Profit Factor").value
\* The report ended in a KeyError.
ReportRaised == \E n \in 1..Len(report) : report[n].line = "KeyError"

\* C30: in the finished report the profit factor is gross profit / gross
\* loss when the gross loss is positive, it is infinite only when the gross
\* loss is zero and the gross profit positive, and for the result without
\* trades no infinite profit factor is reported and the report ends without
\* an error.
C30_ProfitFactorReport ==
    pc = "bt_done" =>
        /\ results.gross_loss > 0 =>
               /\ ~ReportedProfitFactor.infinite
               /\ ReportedProfitFactor.quotient
                      = <<results.gross_profit, results.gross_loss>>
        /\ ReportedProfitFactor.infinite =>
               (results.gross_loss = 0 /\ results.gross_profit > 0)
        /\ results.total_trades = 0 =>
               (~ReportedProfitFactor.infinite /\ ~ReportRaised)

\* The clock is at or past the end-of-day deadline and BotState is IDLE.
PastDeadlineIdle == now >= END_OF_DAY /\ state = "IDLE"
\* An order was submitted in the step that leads to the primed state.
OrderSubmittedNext ==
    /\ pc' # pc
    /\ \E i \in 1..Len(calls') :
           calls'[i].op \in {"send_market_order", "send_stop_sell_order",
                             "send_limit_sell_order"}

\* C31: once the clock is at or past the deadline with BotState IDLE, the
\* bot shuts down, and it submits no order on the way; the deadline stops
\* the bot only when BotState is IDLE; and the state handlers run only in a
\* minute in which a trading window is open.
C31_DeadlineShutsIdleBotDown ==
    /\ PastDeadlineIdle ~> (pc = "done")
    /\ [][PastDeadlineIdle => ~OrderSubmittedNext]_vars
    /\ [][(is_bot_running /\ ~is_bot_running' /\ pc' = "after_loop")
              => state = "IDLE"]_vars
    /\ [][HandlerStep => IsMarketOpen(now)]_vars

\* The bar b of a series resampled to w minutes is final when the loop
\* closes a 1-minute row at minute t: the next row, which will be stamped t,
\* belongs to a later bin.
FinalAt(b, w, t) == BinLabel(t, w) # b.ts

\* The setup bars _update_setup_signal scans on the series df (none when it
\* returns early) and the trigger bar the loop inspects.
BarsScanned(df) ==
    IF Len(df) < config.setup_timeframe_mins * 3 THEN <<>>
    ELSE IF Len(SetupBars(df, config)) < 3 THEN <<>>
    ELSE SetupBars(df, config)
TriggerBarInspected(df, d) ==
    IF state = "IDLE" /\ d.reversal_point # None /\ TriggerBars(df, config) # <<>>
    THEN <<TriggerBars(df, config)[Len(TriggerBars(df, config))]>>
    ELSE <<>>

\* C32: in a pass of the loop that closes a 1-minute row, every setup bar
\* the detector scans and the trigger bar compared with the reversal point
\* are bars whose interval has elapsed: no later row changes them.
C32_OnlyClosedBarsEvaluated ==
    [][(LoopBodyStep /\ IsNewBar) =>
          /\ \A n \in 1..Len(BarsScanned(DfAfterRollover)) :
                 FinalAt(BarsScanned(DfAfterRollover)[n],
                         config.setup_timeframe_mins, now)
          /\ \A n \in 1..Len(TriggerBarInspected(DfAfterRollover,
                                                   DipAfterRollover)) :
                 FinalAt(TriggerBarInspected(DfAfterRollover,
                                             DipAfterRollover)[n],
                         config.trigger_timeframe_mins, now)]_vars

\* The order list shows the stop-loss order executed while the bot holds
\* the position.
StopFilledInPosition == state = "POSITION_OPEN" /\ StopShownExecuted

\* C33: once the order list shows the stop-loss order executed in
\* POSITION_OPEN, the bot reaches CLOSING and from there IDLE with the
\* position cleared, whatever the current price; no handler step taken in
\* that situation requests the cancellation of the stop-loss order.
C33_FilledStopClosesPosition ==
    /\ StopFilledInPosition ~> (state = "CLOSING")
    /\ (state = "CLOSING") ~> (state = "IDLE" /\ entry_price = 0)
    /\ [][(HandlerStep /\ StopFilledInPosition)
              => ~CalledNext("cancel_order")]_vars

\* The setup bars of the session that lie inside the search window of the
\* replay (after 9:01, lines 83 and 100), as 1-minute rows.
WindowRows == SelectSeq(df_1min, LAMBDA b : TimeOf(b.ts) > SEARCH_START)

NoReversal == [index |-> None, value |-> None]

\* The live detector fed the rows df in arrival order from the DipState d,
\* one call of _update_setup_signal per row from row n on: the 0-based index
\* of the row whose call first leaves a reversal point, and that point.
RECURSIVE LiveFirstReversal(_, _, _)
LiveFirstReversal(d, df, n) ==
    IF n > Len(df) THEN NoReversal
    ELSE LET after == UpdateSetupSignal(d, SubSeq(df, 1, n), config)
         IN  IF after.reversal_point # None
             THEN [index |-> n - 1, value |-> after.reversal_point]
             ELSE LiveFirstReversal(after, df, n + 1)

\* Lines 95-118 of run_backtest: the setup loop from iteration j on with
\* the locals d, up to its break at the first reversal point or after
\* search_end_time.
RECURSIVE BacktestFirstReversal(_, _, _)
BacktestFirstReversal(d, df_setup, j) ==
    IF j >= Len(df_setup) THEN NoReversal
    ELSE IF TimeOf(df_setup[j + 1].ts) > SEARCH_END THEN NoReversal
    ELSE LET after == BacktestIterate(d, df_setup, j)
         IN  IF after.reversal_point # None
             THEN [index |-> j, value |-> after.reversal_point]
             ELSE BacktestFirstReversal(after, df_setup, j + 1)

EntryTriggerBar ==
    CHOOSE bar \in {BacktestTriggerBars[k] : k \in 1..Len(BacktestTriggerBars)} :
        bar.ts = entry_time

\* C35: the replay records the entry of a session at the close of the
\* trigger bar whose close first exceeded the reversal point, a bar later
\* than the setup bar that confirmed the reversal point.
C35_ReplayEntersAtTriggerClose ==
    (pc \in {"bt_exit", "bt_record"} /\ entry_found) =>
        /\ EntryTriggerBar.Close > reversal_point
        /\ EntryTriggerBar.ts > BacktestSetupBars[setup_j + 1].ts
        /\ entry_price = EntryTriggerBar.Close

\* The sessions of the series the day loop has gone through (line 66): the
\* loop handles the days in ascending order and day_i counts them.
SessionsReplayed == {UniqueDays(df_1min)[n] : n \in 1..day_i}

\* C36: when run_backtest returns, every session of the series has been
\* replayed, the last one included.
C36_EverySessionReplayed ==
    pc \in {"bt_report", "bt_done"} =>
        \A n \in 1..Len(df_1min) : DayOf(df_1min[n].ts) \in SessionsReplayed

\* The entry order is in the order list and its outcome is open: not yet
\* processed or waiting (state codes 1 and 3), or executed (state code 6)
\* without an execution price.
EntryListedPending ==
    /\ state = "WAITING_FOR_ENTRY"
    /\ EntryFound
    /\ \/ orders[entry_order_id].State \in {1, 3}
       \/ orders[entry_order_id].State = 6 /\ orders[entry_order_id].Price = 0

\* C37: a handler step that finds the entry order listed with an open
\* outcome keeps the bot in WAITING_FOR_ENTRY, leaves the retry counter as
\* it is and sends no 'order not found' notification.
C37_ListedEntryNotLost ==
    [][(HandlerStep /\ QueryAnswered /\ EntryListedPending) =>
          /\ state' = "WAITING_FOR_ENTRY"
          /\ entry_order_check_retries' = entry_order_check_retries
          /\ ~SentNext("emergency_order_not_found")]_vars

\* The bot has seen the outcome of the order o in the order list: executed
\* (lines 423-432), or failed or cancelled as line 460 reads it.
OutcomeObserved(o) == o.listed /\ (ShowsExecuted(o) \/ o.State \in {3, 5})

\* C38: a market buy is submitted only when the outcome of every entry
\* order submitted before it has been observed, and the bot leaves
\* WAITING_FOR_ENTRY for IDLE only without the id of an entry order.
C38_OneUnresolvedEntry ==
    [][/\ (LoopBodyStep /\ CalledNext("send_market_order")) =>
              \A i \in 1..Len(orders) :
                  orders[i].kind = "buy" => OutcomeObserved(orders[i])
       /\ (state = "WAITING_FOR_ENTRY" /\ state' = "IDLE") =>
              entry_order_id' = None]_vars

\* C39: whatever the fill price, the stop-loss price of an open position is
\* below the entry price and the take-profit price above it, and the stop
\* order was placed at that stop-loss price.
C39_LevelsBracketFillPrice ==
    state = "POSITION_OPEN" =>
        /\ stop_loss_price < entry_price
        /\ entry_price < take_profit_price
        /\ orders[stop_loss_order_id].price < entry_price

\* C40: _update_setup_signal run once more on the series it has just been
\* run on, with the DipState the calls so far have left, leaves the five
\* fields of DipState as they are.
C40_RescanIdempotent ==
    UpdateSetupSignal(CurrentDip, df_1min, config) = CurrentDip

\* The calls have left a reversal point and a lowest low later than the
\* start of the dip, on a series of six bars or more.
C40_Witness ==
    /\ pc = "feed"
    /\ Len(df_1min) >= 6
    /\ reversal_point # None
    /\ lowest_price_bar_index > 2

====

